---- MODULE Spec2Model ----
(***************************************************************************)
(* Query core of the MagentaA11y MCP server: the content store and the     *)
(* helper functions listComponents, findComponent, searchComponents and    *)
(* listCategories of src/helpers.js (src/unnamed/part_003, lines 106-379), *)
(* the tools of src/tools.js and the HTTP function netlify/functions/api.js. *)
(*                                                                         *)
(* A JavaScript string is a sequence of one-character strings.  A property *)
(* value is a tagged record [t, v]: t is what typeof / Array.isArray tell  *)
(* of it and v is its payload.  A call either returns a value or throws.   *)
(***************************************************************************)
EXTENDS Integers, Sequences, FiniteSets, TLC

VARIABLES contentCache, loads, pc, call, ret, inflight, locale

vars == <<contentCache, loads, pc, call, ret, inflight, locale>>

-----------------------------------------------------------------------------
(* Bounds of the exploration. *)

MaxLen == 2
MaxCap == 2
MaxInvocations == 2

-----------------------------------------------------------------------------
(* JavaScript values. *)

Str(s) == [t |-> "string", v |-> s]
Undefined == [t |-> "undefined", v |-> <<>>]
Null == [t |-> "null", v |-> <<>>]
Arr(xs) == [t |-> "array", v |-> xs]
Obj(r) == [t |-> "object", v |-> r]
Inherited == [t |-> "function", v |-> <<>>]
Num(n) == [t |-> "number", v |-> <<n>>]
Thrown(e) == [t |-> "throw", v |-> <<e>>]

\* ToBoolean: `!x`, `if (x)`, `x && ...`
Bool(b) == [t |-> "boolean", v |-> <<b>>]

Truthy(x) == /\ x.t \notin {"undefined", "null"}
             /\ ~(x.t = "string" /\ Len(x.v) = 0)
             /\ ~(x.t = "number" /\ x.v[1] = 0)
             /\ ~(x.t = "boolean" /\ x.v[1] = FALSE)

-----------------------------------------------------------------------------
(* String primitives. *)

WhiteSpace == {" "}

LowerChar(c) == CASE c = "A" -> "a"
                  [] c = "B" -> "b"
                  [] c = "C" -> "c"
                  [] c = "G" -> "g"
                  [] OTHER -> c

\* String.prototype.toLowerCase
RECURSIVE ToLowerCase(_)
ToLowerCase(s) == IF Len(s) = 0 THEN <<>>
                  ELSE <<LowerChar(s[1])>> \o ToLowerCase(Tail(s))

RECURSIVE TrimStart(_)
TrimStart(s) == IF Len(s) > 0 /\ s[1] \in WhiteSpace
                THEN TrimStart(SubSeq(s, 2, Len(s)))
                ELSE s

RECURSIVE TrimEnd(_)
TrimEnd(s) == IF Len(s) > 0 /\ s[Len(s)] \in WhiteSpace
              THEN TrimEnd(SubSeq(s, 1, Len(s) - 1))
              ELSE s

\* String.prototype.trim
Trim(s) == TrimEnd(TrimStart(s))

\* s has q at position i (1-based)
HasAt(s, q, i) == /\ i + Len(q) - 1 <= Len(s)
                  /\ \A j \in 1..Len(q) : s[i + j - 1] = q[j]

\* String.prototype.includes
Includes(s, q) == \E i \in 1..(Len(s) + 1) : HasAt(s, q, i)

-----------------------------------------------------------------------------
(* The content artifact: data/content.json, imported once as contentCache. *)

NoSections == [generalNotes |-> Undefined, gherkin |-> Undefined,
               condensed |-> Undefined, developerNotes |-> Undefined,
               androidDeveloperNotes |-> Undefined,
               iosDeveloperNotes |-> Undefined, videos |-> Undefined]

\* A Component of the artifact: name and label are strings, every other
\* section is optional.
Component(name, label, sections) ==
    [name |-> Str(name), label |-> Str(label)] @@ sections @@ NoSections

\* A Category of the artifact; children is an array or is missing.
Category(name, label, children) ==
    [name |-> Str(name), label |-> Str(label), children |-> children]

CompAb == Component(<<"a", "b">>, <<"A", "b">>,
            [generalNotes |-> Str(<<"a", " ", "b">>),
             gherkin |-> Str(<<"a", ".", "b", " ", "A", "A", "b">>),
             videos |-> Arr(<<>>)])
CompB == Component(<<"b">>, <<"B", ".">>,
            [condensed |-> Str(<<>>),
             developerNotes |-> Str(<<"b", " ", "B", "b">>)])
CompA == Component(<<"a">>, <<"A", "+">>,
            [developerNotes |-> Str(<<"a", "+", "b">>),
             generalNotes |-> Str(<<"A", "a", "a", " ", "a">>)])
CompBa == Component(<<"b", "a">>, <<"B", "a">>,
            [condensed |-> Str(<<"a", "a", "b">>)])
CompAa == Component(<<"a", "a">>, <<"A", " ", "a">>,
            [gherkin |-> Str(<<"b", ".">>),
             generalNotes |-> Arr(<<>>)])
CompADashB == Component(<<"a", "-", "b">>, <<"A", ".", "B">>,
            [condensed |-> Str(<<"b">>)])

CategoryPool ==
    << Category(<<"a">>, <<"A">>, Arr(<<CompAb, CompB>>)),
       Category(<<"b">>, <<"B">>, Arr(<<CompA>>)),
       Category(<<"a", "b">>, <<"A", "b">>, Arr(<<CompBa, CompAa, CompADashB>>)),
       Category(<<"b", "a">>, <<"B", "a">>, Undefined),
       Category(<<"a", "a">>, <<"A", "a">>, Arr(<<>>)) >>

NativeCategories ==
    << Category(<<"a">>, <<"A">>,
         Arr(<< Component(<<"a", "b">>, <<"A", "b">>,
                  [iosDeveloperNotes |-> Str(<<"a", " ", "a">>),
                   androidDeveloperNotes |-> Str(<<"b">>)]),
                Component(<<"a">>, <<"A">>,
                  [iosDeveloperNotes |-> Str(<<"a", "b">>),
                   gherkin |-> Str(<<"a">>)]) >>)) >>

\* The dataset of one category and one component: Controls > Checkbox,
\* whose only section is its gherkin "Given..."
CompCheckbox ==
    Component(<<"c", "h", "e", "c", "k", "b", "o", "x">>,
              <<"C", "h", "e", "c", "k", "b", "o", "x">>,
              [gherkin |-> Str(<<"G", "i", "v", "e", "n", ".", ".", ".">>)])

ControlsContent ==
    [web |-> Arr(<< Category(<<"c", "o", "n", "t", "r", "o", "l", "s">>,
                             <<"C", "o", "n", "t", "r", "o", "l", "s">>,
                             Arr(<<CompCheckbox>>)) >>)]

\* The dataset of two components that the query "a" scores alike: the name
\* of one holds it twice and the developer notes of the other do
CompAaNoted == Component(<<"a", "a">>, <<"B">>,
                  [developerNotes |-> Str(<<"a">>)])
CompBaNoted == Component(<<"b", "a">>, <<"B">>,
                  [developerNotes |-> Str(<<"a", "a">>)])

TiedContent ==
    [web |-> Arr(<< Category(<<"a">>, <<"A">>,
                             Arr(<<CompAaNoted, CompBaNoted>>)) >>)]

\* Arrangements of at most two distinct categories of the pool
Arrangements ==
    LET I == 1..Len(CategoryPool)
    IN  {<<>>} \cup {<<i>> : i \in I}
               \cup {p \in I \X I : p[1] # p[2]}

RECURSIVE PickCategories(_)
PickCategories(p) == IF Len(p) = 0 THEN <<>>
                     ELSE <<CategoryPool[p[1]]>> \o PickCategories(Tail(p))

\* The artifacts explored: web is any arrangement of the pool; the native
\* key is present, or missing (an empty platform).
Contents ==
    {[web |-> Arr(PickCategories(p)), native |-> Arr(NativeCategories)] :
        p \in Arrangements}
    \cup
    {[web |-> Arr(PickCategories(p))] : p \in {q \in Arrangements : Len(q) <= 1}}
    \cup
    {ControlsContent, TiedContent}

\* Properties every object inherits from Object.prototype
ObjectPrototypeKeys == {"constructor", "toString", "valueOf", "hasOwnProperty",
                        "__proto__"}

\* content[platform]
Get(content, key) == IF key \in DOMAIN content THEN content[key]
                     ELSE IF key \in ObjectPrototypeKeys THEN Inherited
                     ELSE Undefined

\* loadContent()
loadContent == contentCache

LoadsAfterReparse(n) == n + 1

\* The number of times the artifact has been materialised, after a call of
\* loadContent() that found it n: the call returns the cached reference and
\* reads nothing.
LoadsAfterLoadContent(n) == n

-----------------------------------------------------------------------------
(* The double scan `for category of platformData / for component of        *)
(* category.children`: the pairs visited, in order.                        *)

RECURSIVE ChildrenOf(_, _)
ChildrenOf(cat, kids) ==
    IF Len(kids) = 0 THEN <<>>
    ELSE <<[category |-> cat, component |-> kids[1]]>> \o ChildrenOf(cat, Tail(kids))

RECURSIVE ScanOrder(_)
ScanOrder(cats) ==
    IF Len(cats) = 0 THEN <<>>
    ELSE (IF Truthy(cats[1].children)
          THEN ChildrenOf(cats[1], cats[1].children.v)
          ELSE <<>>) \o ScanOrder(Tail(cats))

\* A copy that took the category's name for `category` and its label for
\* `categoryName`
AugmentSwapped(hit) == [category |-> hit.category.name,
                        categoryName |-> hit.category.label] @@ hit.component

\* {...component, category: category.label, categoryName: category.name}
Augment(hit) == [category |-> hit.category.label,
                 categoryName |-> hit.category.name] @@ hit.component

\* least index of `hits` in `scan`, 0 if none
First(hits) == IF hits = {} THEN 0 ELSE CHOOSE i \in hits : \A j \in hits : i <= j

-----------------------------------------------------------------------------
(* findComponent *)

NormalizeNameNoTrim(componentName) == ToLowerCase(componentName)

\* componentName.toLowerCase().trim()
NormalizeName(componentName) == Trim(ToLowerCase(componentName))

\* component.name.toLowerCase() === normalizedName
ExactMatch(component, normalizedName) ==
    ToLowerCase(component.name.v) = normalizedName

\* A partial pass that looked at names only
PartialMatchNameOnly(component, normalizedName) ==
    Includes(ToLowerCase(component.name.v), normalizedName)

\* name.toLowerCase().includes(q) || label.toLowerCase().includes(q)
PartialMatch(component, normalizedName) ==
    \/ Includes(ToLowerCase(component.name.v), normalizedName)
    \/ Includes(ToLowerCase(component.label.v), normalizedName)

ResolveIndexOnePass(scan, normalizedName) ==
    First({i \in 1..Len(scan) : \/ ExactMatch(scan[i].component, normalizedName)
                                 \/ PartialMatch(scan[i].component, normalizedName)})

ResolveIndexLastPartial(scan, normalizedName) ==
    LET exact == First({i \in 1..Len(scan) : ExactMatch(scan[i].component, normalizedName)})
        part == {i \in 1..Len(scan) : PartialMatch(scan[i].component, normalizedName)}
    IN  IF exact # 0 THEN exact
        ELSE IF part = {} THEN 0 ELSE CHOOSE i \in part : \A j \in part : j <= i

\* The exact pass over the whole platform, then the partial pass
ResolveIndex(scan, normalizedName) ==
    LET exact == First({i \in 1..Len(scan) : ExactMatch(scan[i].component, normalizedName)})
    IN  IF exact # 0 THEN exact
        ELSE First({i \in 1..Len(scan) : PartialMatch(scan[i].component, normalizedName)})

findComponent(platform, componentName) ==
    LET platformData == Get(loadContent, platform)
    IN  IF ~Truthy(platformData) THEN Null
        ELSE IF componentName.t # "string" THEN Thrown("TypeError")
        ELSE IF platformData.t # "array" THEN Thrown("TypeError")
        ELSE LET normalizedName == NormalizeName(componentName.v)
                 scan == ScanOrder(platformData.v)
                 i == ResolveIndex(scan, normalizedName)
             IN  IF i = 0 THEN Null ELSE Obj(Augment(scan[i]))

\* A findComponent that wrote category and categoryName to the stored
\* Component instead of to a copy
contentAfterFindInPlace(platform, componentName) ==
    LET found == findComponent(platform, componentName)
    IN  IF found.t # "object" THEN contentCache
        ELSE [contentCache EXCEPT ![platform] =
               Arr([c \in 1..Len(@.v) |->
                     [@.v[c] EXCEPT !.children =
                        IF ~Truthy(@) THEN @
                        ELSE Arr([k \in 1..Len(@.v) |->
                                   IF @.v[k].name = found.v.name
                                   THEN found.v ELSE @.v[k]])]])]

\* The collection after findComponent: the match is spread into a new
\* object, nothing stored is assigned to.
contentAfterFind(platform, componentName) == contentCache

-----------------------------------------------------------------------------
(* listComponents and listCategories *)

\* category && cat.name.toLowerCase() !== category.toLowerCase()
SkipCategory(cat, category) ==
    /\ Truthy(category)
    /\ ToLowerCase(cat.name.v) # ToLowerCase(category.v)

\* A filter loop that stopped after the first category it kept
RECURSIVE KeepCategoriesFirst(_, _)
KeepCategoriesFirst(cats, category) ==
    IF Len(cats) = 0 THEN <<>>
    ELSE IF SkipCategory(cats[1], category)
         THEN KeepCategoriesFirst(Tail(cats), category)
         ELSE <<cats[1]>>

RECURSIVE KeepCategories(_, _)
KeepCategories(cats, category) ==
    IF Len(cats) = 0 THEN <<>>
    ELSE (IF SkipCategory(cats[1], category) THEN <<>> ELSE <<cats[1]>>)
         \o KeepCategories(Tail(cats), category)

\* {name, label, category: cat.label, categoryName: cat.name}
Summary(hit) == [name |-> hit.component.name, label |-> hit.component.label,
                 category |-> hit.category.label,
                 categoryName |-> hit.category.name]

RECURSIVE Summaries(_)
Summaries(scan) == IF Len(scan) = 0 THEN <<>>
                   ELSE <<Summary(scan[1])>> \o Summaries(Tail(scan))

listComponents(platform, category) ==
    LET platformData == Get(loadContent, platform)
    IN  IF ~Truthy(platformData) THEN Arr(<<>>)
        ELSE IF platformData.t # "array" THEN Thrown("TypeError")
        ELSE Arr(Summaries(ScanOrder(KeepCategories(platformData.v, category))))

\* {name, label, componentCount: cat.children ? cat.children.length : 0}
CategoryEntry(cat) ==
    [name |-> cat.name, label |-> cat.label,
     componentCount |-> IF Truthy(cat.children) THEN Len(cat.children.v) ELSE 0]

RECURSIVE CategoryEntries(_)
CategoryEntries(cats) == IF Len(cats) = 0 THEN <<>>
                         ELSE <<CategoryEntry(cats[1])>> \o CategoryEntries(Tail(cats))

listCategories(platform) ==
    LET platformData == Get(loadContent, platform)
    IN  IF ~Truthy(platformData) THEN Arr(<<>>)
        ELSE IF platformData.t # "array" THEN Thrown("TypeError")
        ELSE Arr(CategoryEntries(platformData.v))

-----------------------------------------------------------------------------
(* new RegExp(normalizedQuery, 'g') and String.prototype.match, over the   *)
(* pattern characters that occur: "." is any character, "+" repeats the    *)
(* atom before it one or more times (greedy), every other character is     *)
(* itself.  A "+" with no atom before it is a SyntaxError.                 *)

RegExpValid(p) ==
    /\ Len(p) > 0 => p[1] # "+"
    /\ \A i \in 1..(Len(p) - 1) : ~(p[i] = "+" /\ p[i + 1] = "+")

AtomOk(p, k, s, j) == j <= Len(s) /\ (p[k] = "." \/ p[k] = s[j])

RECURSIVE RunLength(_, _, _, _)
RunLength(p, k, s, j) == IF AtomOk(p, k, s, j) THEN 1 + RunLength(p, k, s, j + 1)
                         ELSE 0

\* The position after the match of p[k..] that starts at s[i]; 0 if none
RECURSIVE MatchFrom(_, _, _, _)
RECURSIVE MatchGreedy(_, _, _, _, _)
MatchFrom(p, k, s, i) ==
    IF k > Len(p) THEN i
    ELSE IF k < Len(p) /\ p[k + 1] = "+"
         THEN MatchGreedy(p, k, s, i, RunLength(p, k, s, i))
         ELSE IF AtomOk(p, k, s, i) THEN MatchFrom(p, k + 1, s, i + 1) ELSE 0

MatchGreedy(p, k, s, i, n) ==
    IF n < 1 THEN 0
    ELSE LET e == MatchFrom(p, k + 2, s, i + n)
         IN  IF e # 0 THEN e ELSE MatchGreedy(p, k, s, i, n - 1)

\* (s.match(new RegExp(p, 'g')) || []).length, scanning from lastIndex
RECURSIVE CountMatches(_, _, _)
CountMatches(p, s, from) ==
    LET starts == {i \in from..(Len(s) + 1) : MatchFrom(p, 1, s, i) # 0}
    IN  IF starts = {} THEN 0
        ELSE LET st == First(starts)
                 e == MatchFrom(p, 1, s, st)
             IN  1 + CountMatches(p, s, IF e = st THEN e + 1 ELSE e)

-----------------------------------------------------------------------------
(* a.name.localeCompare(b.name), called with no locales argument: the     *)
(* collation of the default locale of the process, which the host sets.    *)
(* Three collations are told apart.  "en-US" is the root order:            *)
(* punctuation before letters, letters alphabetically whatever their case, *)
(* lower case before upper case where nothing else differs.  "da-DK"       *)
(* sorts the pair "aa" as the letter a-ring, behind every other letter,    *)
(* and upper case before lower case.  "th-TH" ignores blanks and           *)
(* punctuation.                                                            *)

Locales == {"en-US", "da-DK", "th-TH"}

PrimaryRank(c) == CASE c = " " -> 1
                    [] c = "-" -> 2
                    [] c = "." -> 3
                    [] c = "+" -> 4
                    [] c \in {"a", "A"} -> 5
                    [] c \in {"b", "B"} -> 6

CaseRank(c) == IF c \in {"A", "B"} THEN 1 ELSE 0

\* Characters a collation with shifted alternates ignores
Ignorable(c, loc) == loc = "th-TH" /\ c \in {" ", "-", "."}

\* The digraph a collation sorts as one letter
Contracts(s, loc) ==
    /\ loc = "da-DK"
    /\ Len(s) >= 2
    /\ <<s[1], s[2]>> \in {<<"a", "a">>, <<"A", "a">>, <<"A", "A">>}

\* The collation elements of a string: [primary, case] of each letter
RECURSIVE CollationElements(_, _)
CollationElements(s, loc) ==
    IF Len(s) = 0 THEN <<>>
    ELSE IF Ignorable(s[1], loc) THEN CollationElements(Tail(s), loc)
    ELSE IF Contracts(s, loc)
    THEN <<[primary |-> 7, case |-> CaseRank(s[1]) + CaseRank(s[2])]>>
         \o CollationElements(SubSeq(s, 3, Len(s)), loc)
    ELSE <<[primary |-> PrimaryRank(s[1]), case |-> CaseRank(s[1])]>>
         \o CollationElements(Tail(s), loc)

RECURSIVE ComparePrimary(_, _)
ComparePrimary(a, b) ==
    IF Len(a) = 0 THEN (IF Len(b) = 0 THEN 0 ELSE -1)
    ELSE IF Len(b) = 0 THEN 1
    ELSE IF a[1].primary # b[1].primary
         THEN (IF a[1].primary < b[1].primary THEN -1 ELSE 1)
         ELSE ComparePrimary(Tail(a), Tail(b))

RECURSIVE CompareCase(_, _)
CompareCase(a, b) ==
    IF Len(a) = 0 \/ Len(b) = 0 THEN 0
    ELSE IF a[1].case # b[1].case
         THEN (IF a[1].case < b[1].case THEN -1 ELSE 1)
         ELSE CompareCase(Tail(a), Tail(b))

\* Intl.Collator(loc).compare(a, b)
CollatorCompare(a, b, loc) ==
    LET ka == CollationElements(a, loc)
        kb == CollationElements(b, loc)
    IN  IF ComparePrimary(ka, kb) # 0 THEN ComparePrimary(ka, kb)
        ELSE IF loc = "da-DK" THEN 0 - CompareCase(ka, kb)
        ELSE CompareCase(ka, kb)

LocaleCompare(a, b) == CollatorCompare(a, b, locale)

-----------------------------------------------------------------------------
(* searchComponents *)

DefaultMaxResults == 10

\* Fields to search with weights
searchFields == << [field |-> "label", weight |-> 10],
                   [field |-> "name", weight |-> 10],
                   [field |-> "generalNotes", weight |-> 5],
                   [field |-> "gherkin", weight |-> 3],
                   [field |-> "condensed", weight |-> 3],
                   [field |-> "developerNotes", weight |-> 2],
                   [field |-> "androidDeveloperNotes", weight |-> 2],
                   [field |-> "iosDeveloperNotes", weight |-> 2] >>

FieldHitCaseSensitive(value, normalizedQuery) ==
    /\ Truthy(value)
    /\ value.t = "string"
    /\ Includes(value.v, normalizedQuery)

\* value && typeof value === 'string' && lowerValue.includes(normalizedQuery)
FieldHit(value, normalizedQuery) ==
    /\ Truthy(value)
    /\ value.t = "string"
    /\ Includes(ToLowerCase(value.v), normalizedQuery)

\* (lowerValue.match(new RegExp(normalizedQuery, 'g')) || []).length
Occurrences(lowerValue, normalizedQuery) == CountMatches(normalizedQuery, lowerValue, 1)

\* The inner loop over searchFields, from field k on: score and matches
RECURSIVE ScoreFields(_, _, _)
ScoreFields(component, normalizedQuery, k) ==
    IF k > Len(searchFields) THEN [score |-> 0, matches |-> <<>>]
    ELSE LET f == searchFields[k]
             value == component[f.field]
             rest == ScoreFields(component, normalizedQuery, k + 1)
         IN  IF FieldHit(value, normalizedQuery)
             THEN [score |-> f.weight
                             + Occurrences(ToLowerCase(value.v), normalizedQuery) - 1
                             + rest.score,
                   matches |-> <<f.field>> \o rest.matches]
             ELSE rest

\* new RegExp(normalizedQuery, 'g') is reached and throws
SearchThrows(scan, normalizedQuery) ==
    /\ ~RegExpValid(normalizedQuery)
    /\ \E i \in 1..Len(scan), k \in 1..Len(searchFields) :
           FieldHit(scan[i].component[searchFields[k].field], normalizedQuery)

\* if (score > 0) results.push({...})
RECURSIVE Matches(_, _)
Matches(scan, normalizedQuery) ==
    IF Len(scan) = 0 THEN <<>>
    ELSE LET sc == ScoreFields(scan[1].component, normalizedQuery, 1)
         IN  (IF sc.score > 0
              THEN << [name |-> scan[1].component.name,
                       label |-> scan[1].component.label,
                       category |-> scan[1].category.label,
                       categoryName |-> scan[1].category.name,
                       score |-> sc.score,
                       matchedFields |-> sc.matches,
                       generalNotes |-> scan[1].component.generalNotes] >>
              ELSE <<>>) \o Matches(Tail(scan), normalizedQuery)

CompareScoreOnly(a, b) == b.score - a.score

\* The comparator of results.sort: score descending, then name
Compare(a, b) == IF b.score # a.score THEN b.score - a.score
                 ELSE LocaleCompare(a.name.v, b.name.v)

\* Array.prototype.sort is stable: x goes behind everything not after it
RECURSIVE InsertSorted(_, _)
InsertSorted(sorted, x) ==
    IF Len(sorted) = 0 THEN <<x>>
    ELSE IF Compare(sorted[1], x) <= 0
         THEN <<sorted[1]>> \o InsertSorted(Tail(sorted), x)
         ELSE <<x>> \o sorted

RECURSIVE SortResults(_)
SortResults(results) ==
    IF Len(results) = 0 THEN <<>>
    ELSE InsertSorted(SortResults(SubSeq(results, 1, Len(results) - 1)),
                      results[Len(results)])

SliceOneMore(results, end) ==
    LET n == Len(results)
        k == IF end < 0 THEN (IF n + end < 0 THEN 0 ELSE n + end)
             ELSE (IF end + 1 > n THEN n ELSE end + 1)
    IN  SubSeq(results, 1, k)

\* results.slice(0, end)
Slice(results, end) ==
    LET n == Len(results)
        k == IF end < 0 THEN (IF n + end < 0 THEN 0 ELSE n + end)
             ELSE (IF end > n THEN n ELSE end)
    IN  SubSeq(results, 1, k)

\* The ranked list before truncation
Ranked(platformData, normalizedQuery) ==
    SortResults(Matches(ScanOrder(platformData.v), normalizedQuery))

searchComponents(platform, query, maxResults) ==
    LET platformData == Get(loadContent, platform)
        cap == IF maxResults.t = "undefined" THEN DefaultMaxResults
               ELSE maxResults.v[1]
    IN  IF ~Truthy(platformData) \/ ~Truthy(query) THEN Arr(<<>>)
        ELSE IF query.t # "string" THEN Thrown("TypeError")
        ELSE IF platformData.t # "array" THEN Thrown("TypeError")
        ELSE LET normalizedQuery == Trim(ToLowerCase(query.v))
             IN  IF SearchThrows(ScanOrder(platformData.v), normalizedQuery)
                 THEN Thrown("SyntaxError")
                 ELSE Arr(Slice(Ranked(platformData, normalizedQuery), cap))

-----------------------------------------------------------------------------
(* listComponentFormats *)

FormatNames == {"gherkin", "condensed", "developerNotes",
                "androidDeveloperNotes", "iosDeveloperNotes", "videos",
                "generalNotes"}

\* A flag that only asked whether the field exists
FormatFlagDefined(value) == value.t # "undefined"

\* !!component.field
FormatFlag(value) == Truthy(value)

listComponentFormats(platform, componentName) ==
    LET component == findComponent(platform, componentName)
    IN  IF component.t = "throw" THEN component
        ELSE IF ~Truthy(component) THEN Null
        ELSE Obj([name |-> component.v.name,
                  label |-> component.v.label,
                  category |-> component.v.category,
                  formats |-> [f \in FormatNames |-> FormatFlag(component.v[f])]])

-----------------------------------------------------------------------------
(* formatComponentOutput *)

\* component.field, kept only when it is truthy
Kept(value) == IF Truthy(value) THEN value ELSE Undefined

formatComponentOutput(component, includeCodeExamples) ==
    IF ~Truthy(component) THEN Null
    ELSE Obj([name |-> component.v.name,
              label |-> component.v.label,
              category |-> component.v.category,
              generalNotes |-> IF Truthy(component.v.generalNotes)
                               THEN component.v.generalNotes ELSE Null,
              gherkin |-> Kept(component.v.gherkin),
              condensed |-> Kept(component.v.condensed),
              developerNotes |-> IF includeCodeExamples
                                 THEN Kept(component.v.developerNotes)
                                 ELSE Undefined,
              androidDeveloperNotes |-> Kept(component.v.androidDeveloperNotes),
              iosDeveloperNotes |-> Kept(component.v.iosDeveloperNotes)])

-----------------------------------------------------------------------------
(* The tools of tools.js.  A handler receives `args`, an object whose       *)
(* missing properties read as undefined, or undefined itself.  The text of  *)
(* a response is held as its template and the values interpolated into it.  *)

\* A platform name in `args`: a string that is only compared with === and
\* used as a property key, held as one token
PlatformArg(p) == [t |-> "string", v |-> <<p>>]

\* content[args.platform]: the property key of the value
PlatformKey(value) == IF value.t = "undefined" THEN "undefined" ELSE value.v[1]

NoArgs == [category |-> Undefined, component |-> Undefined,
           query |-> Undefined, platform |-> Undefined,
           max_results |-> Undefined, include_code_examples |-> Undefined]

\* The object {k: v, ...} as `args`
Args(given) == Obj(given @@ NoArgs)

textResponse(text) == [content |-> <<[type |-> "text", text |-> text]>>]

\* catch (error) { return textResponse(`<prefix>: ${error.message}`) }
Caught(prefix, error) ==
    textResponse([template |-> prefix, message |-> error.v[1]])

\* value.<property>: the property of an object; undefined on a number, a
\* string, a boolean or an array, none of which has the properties read here
Prop(value, key) == IF value.t = "object" THEN value.v[key] ELSE Undefined

\* args.<property> raises a TypeError when args is undefined or null
ReadsThrow(args) == args.t \in {"undefined", "null"}

\* `- **${comp.label}** (\`${comp.name}\`)`
Line(comp) == [label |-> comp.label, name |-> comp.name]

RECURSIVE Lines(_)
Lines(comps) == IF Len(comps) = 0 THEN <<>>
                ELSE <<Line(comps[1])>> \o Lines(Tail(comps))

\* grouped[comp.category].push(comp), groups in order of first appearance
RECURSIVE Grouped(_, _)
Grouped(components, groups) ==
    IF Len(components) = 0 THEN groups
    ELSE LET comp == components[1]
             at == {i \in 1..Len(groups) : groups[i].category = comp.category}
         IN  Grouped(Tail(components),
                     IF at = {}
                     THEN Append(groups, [category |-> comp.category,
                                          comps |-> <<Line(comp)>>])
                     ELSE [groups EXCEPT ![CHOOSE i \in at : TRUE].comps =
                                            Append(@, Line(comp))])

\* list_web_components and list_native_components
ListHandler(platform, args, prefix) ==
    IF ReadsThrow(args) THEN Caught(prefix, Thrown("TypeError"))
    ELSE LET components == listComponents(platform, Prop(args, "category"))
         IN  IF components.t = "throw" THEN Caught(prefix, components)
             ELSE IF Len(components.v) = 0
             THEN IF Truthy(Prop(args, "category"))
                  THEN textResponse(
                         [template |-> "No components found in category",
                          category |-> Prop(args, "category"),
                          categories |-> listCategories(platform).v])
                  ELSE textResponse([template |-> "No components found.",
                                     scope |-> platform])
             ELSE textResponse([template |-> "# Accessibility Components",
                                scope |-> platform,
                                total |-> Len(components.v),
                                groups |-> Grouped(components.v, <<>>)])

list_web_components(args) ==
    ListHandler("web", args, "Error listing web components")

list_native_components(args) ==
    ListHandler("native", args, "Error listing native components")

SuggestionLimit == 5

\* A filter that kept every component of the listing
SuggestsAny(c, component) == TRUE

\* c.name.includes(args.component.toLowerCase()) ||
\* c.label.toLowerCase().includes(args.component.toLowerCase())
Suggests(c, component) ==
    \/ Includes(c.name.v, ToLowerCase(component.v))
    \/ Includes(ToLowerCase(c.label.v), ToLowerCase(component.v))

RECURSIVE Filter(_, _)
Filter(allComponents, component) ==
    IF Len(allComponents) = 0 THEN <<>>
    ELSE (IF Suggests(allComponents[1], component)
          THEN <<allComponents[1]>> ELSE <<>>)
         \o Filter(Tail(allComponents), component)

\* The not-found message of get_web_component and get_native_component
NotFoundWithSuggestions(platform, component) ==
    LET allComponents == listComponents(platform, Null)
        suggestions == Slice(Filter(allComponents.v, component), SuggestionLimit)
    IN  textResponse([template |-> "Component not found.",
                      scope |-> platform,
                      component |-> component,
                      suggestions |-> Lines(suggestions)])

\* if (value) output += `## <heading>\n${value}\n\n`
Section(heading, value) ==
    IF Truthy(value) THEN <<[heading |-> heading, body |-> value]>> ELSE <<>>

\* args.include_code_examples !== false
IncludeCode(args) ==
    ~(Prop(args, "include_code_examples").t = "boolean"
      /\ Prop(args, "include_code_examples").v[1] = FALSE)

get_web_component(args) ==
    IF ReadsThrow(args) THEN Caught("Error getting component", Thrown("TypeError"))
    ELSE LET component == findComponent("web", Prop(args, "component"))
         IN  IF component.t = "throw"
             THEN Caught("Error getting component", component)
             ELSE IF ~Truthy(component)
             THEN NotFoundWithSuggestions("web", Prop(args, "component"))
             ELSE LET includeCode == IncludeCode(args)
                      formatted == formatComponentOutput(component, includeCode).v
                  IN  textResponse(
                        [template |-> "# component",
                         scope |-> "web",
                         label |-> formatted.label,
                         category |-> formatted.category,
                         name |-> formatted.name,
                         sections |->
                           Section("Overview", formatted.generalNotes)
                           \o Section("Condensed Criteria", formatted.condensed)
                           \o Section("Gherkin Acceptance Criteria", formatted.gherkin)
                           \o (IF includeCode
                               THEN Section("Developer Notes & Code Examples",
                                            formatted.developerNotes)
                               ELSE <<>>)])

get_native_component(args) ==
    IF ReadsThrow(args)
    THEN Caught("Error getting native component", Thrown("TypeError"))
    ELSE LET found == findComponent("native", Prop(args, "component"))
         IN  IF found.t = "throw"
             THEN Caught("Error getting native component", found)
             ELSE IF ~Truthy(found)
             THEN NotFoundWithSuggestions("native", Prop(args, "component"))
             ELSE LET includeCode == IncludeCode(args)
                      component == found.v
                  IN  textResponse(
                        [template |-> "# component",
                         scope |-> "native",
                         label |-> component.label,
                         category |-> component.category,
                         name |-> component.name,
                         sections |->
                           Section("Overview", component.generalNotes)
                           \o Section("Condensed Criteria", component.condensed)
                           \o Section("Gherkin Acceptance Criteria", component.gherkin)
                           \o (IF includeCode
                               THEN Section("iOS Developer Notes (VoiceOver)",
                                            component.iosDeveloperNotes)
                                    \o Section("Android Developer Notes (TalkBack)",
                                               component.androidDeveloperNotes)
                                    \o Section("General Developer Notes",
                                               component.developerNotes)
                               ELSE <<>>)])

HandlerDefaultMaxResults == 10

\* One block of the search output
ResultBlock(result) ==
    [label |-> result.label, name |-> result.name,
     category |-> result.category, matchedFields |-> result.matchedFields,
     overview |-> Kept(result.generalNotes)]

RECURSIVE ResultBlocks(_)
ResultBlocks(results) ==
    IF Len(results) = 0 THEN <<>>
    ELSE <<ResultBlock(results[1])>> \o ResultBlocks(Tail(results))

\* search_web_criteria and search_native_criteria
SearchHandler(platform, args, prefix) ==
    IF ReadsThrow(args) THEN Caught(prefix, Thrown("TypeError"))
    ELSE LET maxResults == IF Truthy(Prop(args, "max_results"))
                           THEN Prop(args, "max_results")
                           ELSE Num(HandlerDefaultMaxResults)
             results == searchComponents(platform, Prop(args, "query"), maxResults)
         IN  IF results.t = "throw" THEN Caught(prefix, results)
             ELSE IF Len(results.v) = 0
             THEN textResponse([template |-> "No results found",
                                scope |-> platform,
                                query |-> Prop(args, "query")])
             ELSE textResponse([template |-> "# Search Results",
                                scope |-> platform,
                                query |-> Prop(args, "query"),
                                total |-> Len(results.v),
                                results |-> ResultBlocks(results.v)])

search_web_criteria(args) ==
    SearchHandler("web", args, "Error searching web criteria")

search_native_criteria(args) ==
    SearchHandler("native", args, "Error searching native criteria")

NotFoundForPlatform(args) ==
    textResponse([template |-> "Component not found for platform",
                  component |-> Prop(args, "component"),
                  platform |-> Prop(args, "platform")])

\* get_component_gherkin and get_component_condensed
CriteriaHandler(field, args, prefix) ==
    IF ReadsThrow(args) THEN Caught(prefix, Thrown("TypeError"))
    ELSE LET component == findComponent(PlatformKey(Prop(args, "platform")),
                                        Prop(args, "component"))
         IN  IF component.t = "throw" THEN Caught(prefix, component)
             ELSE IF ~Truthy(component) THEN NotFoundForPlatform(args)
             ELSE IF ~Truthy(component.v[field])
             THEN textResponse([template |-> "No criteria available",
                                field |-> field,
                                label |-> component.v.label])
             ELSE textResponse([template |-> "# Acceptance Criteria",
                                field |-> field,
                                label |-> component.v.label,
                                platform |-> Prop(args, "platform"),
                                category |-> component.v.category,
                                body |-> component.v[field]])

get_component_gherkin(args) ==
    CriteriaHandler("gherkin", args, "Error getting Gherkin criteria")

get_component_condensed(args) ==
    CriteriaHandler("condensed", args, "Error getting condensed criteria")

get_component_developer_notes(args) ==
    IF ReadsThrow(args)
    THEN Caught("Error getting developer notes", Thrown("TypeError"))
    ELSE LET found == findComponent(PlatformKey(Prop(args, "platform")),
                                    Prop(args, "component"))
         IN  IF found.t = "throw"
             THEN Caught("Error getting developer notes", found)
             ELSE IF ~Truthy(found) THEN NotFoundForPlatform(args)
             ELSE LET component == found.v
                      sections ==
                        Section("General Developer Notes", component.developerNotes)
                        \o (IF PlatformKey(Prop(args, "platform")) = "native"
                            THEN Section("iOS Developer Notes",
                                         component.iosDeveloperNotes)
                                 \o Section("Android Developer Notes",
                                            component.androidDeveloperNotes)
                            ELSE <<>>)
                      hasNotes == Len(sections) > 0
                  IN  IF ~hasNotes
                      THEN textResponse(
                             [template |-> "No developer notes available",
                              label |-> component.label])
                      ELSE textResponse(
                             [template |-> "# Developer Notes",
                              label |-> component.label,
                              platform |-> Prop(args, "platform"),
                              category |-> component.category,
                              sections |-> sections])

get_component_native_notes(args) ==
    IF ReadsThrow(args)
    THEN Caught("Error getting native notes", Thrown("TypeError"))
    ELSE LET found == findComponent("native", Prop(args, "component"))
         IN  IF found.t = "throw"
             THEN Caught("Error getting native notes", found)
             ELSE IF ~Truthy(found)
             THEN textResponse([template |-> "Native component not found.",
                                component |-> Prop(args, "component")])
             ELSE LET component == found.v
                      ios == PlatformKey(Prop(args, "platform")) = "ios"
                      platformName == IF ios THEN "iOS" ELSE "Android"
                      notesField == IF ios THEN "iosDeveloperNotes"
                                    ELSE "androidDeveloperNotes"
                      notes == component[notesField]
                  IN  IF ~Truthy(notes)
                      THEN textResponse(
                             [template |-> "No native developer notes available",
                              platformName |-> platformName,
                              label |-> component.label])
                      ELSE textResponse(
                             [template |-> "# Native Developer Notes",
                              platformName |-> platformName,
                              label |-> component.label,
                              name |-> component.name,
                              category |-> component.category,
                              body |-> notes])

\* Object.entries(formats.formats): the flags in the order they were written
FormatOrder == <<"gherkin", "condensed", "developerNotes",
                 "androidDeveloperNotes", "iosDeveloperNotes", "videos",
                 "generalNotes">>

list_component_formats(args) ==
    IF ReadsThrow(args) THEN Caught("Error listing formats", Thrown("TypeError"))
    ELSE LET formats == listComponentFormats(PlatformKey(Prop(args, "platform")),
                                             Prop(args, "component"))
         IN  IF formats.t = "throw" THEN Caught("Error listing formats", formats)
             ELSE IF ~Truthy(formats) THEN NotFoundForPlatform(args)
             ELSE textResponse(
                    [template |-> "# Available Formats",
                     label |-> formats.v.label,
                     platform |-> Prop(args, "platform"),
                     category |-> formats.v.category,
                     name |-> formats.v.name,
                     lines |-> [i \in 1..Len(FormatOrder) |->
                                  [format |-> FormatOrder[i],
                                   available |-> formats.v.formats[FormatOrder[i]]]]])

\* tools.map(tool => tool.name)
ToolNames == <<"list_web_components", "get_web_component",
               "search_web_criteria", "list_native_components",
               "get_native_component", "search_native_criteria",
               "get_component_gherkin", "get_component_condensed",
               "get_component_developer_notes", "get_component_native_notes",
               "list_component_formats">>

\* inputSchema.required
required(name) ==
    IF name \in {"get_web_component", "get_native_component"} THEN {"component"}
    ELSE IF name \in {"search_web_criteria", "search_native_criteria"}
    THEN {"query"}
    ELSE IF name \in {"get_component_gherkin", "get_component_condensed",
                      "get_component_developer_notes",
                      "get_component_native_notes", "list_component_formats"}
    THEN {"platform", "component"}
    ELSE {}

\* tools.find(t => t.name === name)
ToolFound(name) == \E i \in 1..Len(ToolNames) : ToolNames[i] = name

\* tool.handler(args)
ToolHandler(name, args) ==
    CASE name = "list_web_components" -> list_web_components(args)
      [] name = "get_web_component" -> get_web_component(args)
      [] name = "search_web_criteria" -> search_web_criteria(args)
      [] name = "list_native_components" -> list_native_components(args)
      [] name = "get_native_component" -> get_native_component(args)
      [] name = "search_native_criteria" -> search_native_criteria(args)
      [] name = "get_component_gherkin" -> get_component_gherkin(args)
      [] name = "get_component_condensed" -> get_component_condensed(args)
      [] name = "get_component_developer_notes" ->
            get_component_developer_notes(args)
      [] name = "get_component_native_notes" -> get_component_native_notes(args)
      [] name = "list_component_formats" -> list_component_formats(args)

-----------------------------------------------------------------------------
(* netlify/functions/api.js: the registered call-tool handler, the          *)
(* stateless JSON-RPC handler and the HTTP function.  A JSON value is a     *)
(* tagged value; a property that the JSON text does not give reads as       *)
(* undefined.                                                                *)

\* A method or tool name: a string that is only compared with ===
Token(s) == [t |-> "string", v |-> <<s>>]

IsToken(value, s) == value.t = "string" /\ value.v[1] = s

\* {name, arguments} of a tools/call request
Params(name, arguments) == Obj([name |-> Token(name), arguments |-> arguments])

\* {jsonrpc: '2.0', method, params, id}
Request(method, params, id) ==
    Obj([method |-> Token(method), params |-> params, id |-> id])

\* server.setRequestHandler(CallToolRequestSchema, ...): the tool result, or
\* the Error thrown to the server
CallToolRequestHandler(request) ==
    LET name == request.v.params.v.name
    IN  IF ~(name.t = "string" /\ ToolFound(name.v[1]))
        THEN Thrown("Unknown tool")
        ELSE ToolHandler(name.v[1], request.v.params.v.arguments)

\* {jsonrpc: '2.0', id, result}
\* {}
EmptyArgs == Obj(NoArgs)

Success(id, result) == Obj([jsonrpc |-> "2.0", id |-> id, result |-> result])

InternalError == -32603

ParseError == -32700

\* {jsonrpc: '2.0', id, error: {code: -32603, message}}
Failure(id, message) ==
    Obj([jsonrpc |-> "2.0", id |-> id,
         error |-> [code |-> InternalError, message |-> message]])

InitializeResult ==
    [protocolVersion |-> "2024-11-05", capabilities |-> "tools",
     serverInfo |-> [name |-> "magentaa11y-mcp", version |-> "1.0.0"]]

\* const { method, params, id } = request raises a TypeError for null; the
\* statement stands before the try
DestructureThrows(request) == request.t \in {"null", "undefined"}

\* handleJsonRpcRequest reaches `await tool.handler(params.arguments || {})`:
\* the method is tools/call and params names a tool
CallsTool(request) ==
    /\ ~DestructureThrows(request)
    /\ IsToken(Prop(request, "method"), "tools/call")
    /\ Prop(request, "params").t \notin {"undefined", "null"}
    /\ Prop(Prop(request, "params"), "name").t = "string"
    /\ ToolFound(Prop(Prop(request, "params"), "name").v[1])

\* tool.handler(params.arguments || {})
ToolResultOf(params) ==
    ToolHandler(Prop(params, "name").v[1],
                IF Truthy(Prop(params, "arguments"))
                THEN Prop(params, "arguments")
                ELSE EmptyArgs)

handleJsonRpcRequest(request) ==
    IF DestructureThrows(request) THEN Thrown("TypeError")
    ELSE LET method == Prop(request, "method")
             params == Prop(request, "params")
             id == Prop(request, "id")
         IN  IF IsToken(method, "initialize")
             THEN Success(id, InitializeResult)
             ELSE IF IsToken(method, "tools/list")
             THEN Success(id, [tools |-> ToolNames])
             ELSE IF IsToken(method, "tools/call")
             THEN IF params.t \in {"undefined", "null"}
                  THEN Failure(id, "TypeError")
                  ELSE IF ~(Prop(params, "name").t = "string"
                            /\ ToolFound(Prop(params, "name").v[1]))
                  THEN Failure(id, "Unknown tool")
                  ELSE Success(id, ToolResultOf(params))
             ELSE IF IsToken(method, "notifications/initialized") THEN Null
             ELSE IF IsToken(method, "ping") THEN Success(id, <<>>)
             ELSE Failure(id, "Unknown method")

\* JSON.parse(event.body): the body is the text of a JSON value, or is not
\* JSON at all
JsonText(value) == [t |-> "json", v |-> <<value>>]

NotJson == [t |-> "malformed", v |-> <<>>]

Parse(body) == IF body.t = "json" THEN body.v[1] ELSE Thrown("SyntaxError")

\* body: ''
EmptyBody == [t |-> "empty", v |-> <<>>]

\* JSON.stringify of one response: a property that is undefined is left out
Serialized(response) ==
    IF response.v.id.t = "undefined"
    THEN Obj([k \in DOMAIN response.v \ {"id"} |-> response.v[k]])
    ELSE response

corsHeaders ==
    [AccessControlAllowOrigin |-> "*",
     AccessControlAllowMethods |-> "GET, POST, OPTIONS",
     AccessControlAllowHeaders |-> "Content-Type, Accept, Mcp-Session-Id"]

JsonHeaders == [ContentType |-> "application/json"] @@ corsHeaders

\* if (response !== null) responses.push(response), then the rest of the
\* loop; an exception leaves the loop
RECURSIVE BatchResponses(_, _)
BatchStep(rest, responses, response) ==
    IF response.t = "throw" THEN response
    ELSE BatchResponses(rest, IF response.t = "null" THEN responses
                              ELSE Append(responses, Serialized(response)))

\* The for loop over a batch: the responses that are not null, or the
\* exception that left the loop
BatchResponses(requests, responses) ==
    IF Len(requests) = 0 THEN Arr(responses)
    ELSE BatchStep(Tail(requests), responses, handleJsonRpcRequest(requests[1]))

ParseErrorReply(error) ==
    [statusCode |-> 400, headers |-> JsonHeaders,
     body |-> JsonText(Obj([jsonrpc |-> "2.0", id |-> Null,
                            error |-> [code |-> ParseError,
                                       message |-> <<"Parse error", error.v[1]>>]]))]

\* The reply to a batch
BatchReply(responses) ==
    IF responses.t = "throw" THEN ParseErrorReply(responses)
    ELSE [statusCode |-> 200, headers |-> JsonHeaders,
          body |-> JsonText(IF Len(responses.v) = 1 THEN responses.v[1]
                            ELSE responses)]

\* The reply to a single request
SingleReply(response) ==
    IF response.t = "throw" THEN ParseErrorReply(response)
    ELSE IF response.t = "null"
    THEN [statusCode |-> 202, headers |-> corsHeaders, body |-> EmptyBody]
    ELSE [statusCode |-> 200, headers |-> JsonHeaders,
          body |-> JsonText(Serialized(response))]

\* The POST branch of handler, after JSON.parse
PostParsed(request) ==
    IF request.t = "throw" THEN ParseErrorReply(request)
    ELSE IF request.t = "array" THEN BatchReply(BatchResponses(request.v, <<>>))
    ELSE SingleReply(handleJsonRpcRequest(request))

\* The POST branch of handler
Post(body) == PostParsed(Parse(body))

\* export const handler = async (event, context) => ...
handler(event) ==
    IF event.httpMethod = "OPTIONS"
    THEN [statusCode |-> 204, headers |-> corsHeaders, body |-> EmptyBody]
    ELSE IF event.httpMethod = "POST" THEN Post(event.body)
    ELSE IF event.httpMethod = "GET"
    THEN [statusCode |-> 200, headers |-> JsonHeaders,
          body |-> JsonText(Obj([name |-> "magentaa11y-mcp",
                                 version |-> "1.0.0",
                                 status |-> "healthy",
                                 protocol |-> "MCP JSON-RPC 2.0",
                                 tools |-> Len(ToolNames)]))]
    ELSE [statusCode |-> 405, headers |-> corsHeaders,
          body |-> JsonText(Obj([error |-> "Method not allowed"]))]

-----------------------------------------------------------------------------
(* The requests explored *)

\* A JSON number, string or boolean: a value whose properties all read as
\* undefined
NonObject == [t |-> "primitive", v |-> <<>>]

ComponentValues ==
    {Undefined, Str(<<>>), Str(<<"a">>), Str(<<"A", "b">>), Str(<<" ", "b">>),
     Str(<<"b", "b">>), Str(<<".">>)}

CategoryValues ==
    {Undefined, Str(<<>>), Str(<<"A">>), Str(<<"a", "b">>), Str(<<"b", "b">>)}

QueryValues ==
    {Undefined, Str(<<>>), Str(<<"a">>), Str(<<"b", ".">>), Str(<<"+">>),
     Str(<<"b", "b", "b">>)}

MaxResultsValues == {Undefined, Num(0), Num(1), Num(-1)}

IncludeValues == {Undefined, Bool(FALSE), Bool(TRUE)}

PlatformValues ==
    {Undefined} \cup {PlatformArg(p) : p \in {"web", "native", "ios", "android",
                                              "", "constructor"}}

\* The argument objects sent to a tool: the properties of its inputSchema
ArgumentsFor(name) ==
    IF name \in {"list_web_components", "list_native_components"}
    THEN {Args([category |-> c]) : c \in CategoryValues}
    ELSE IF name \in {"get_web_component", "get_native_component"}
    THEN {Args([component |-> c, include_code_examples |-> i]) :
             c \in ComponentValues, i \in IncludeValues}
    ELSE IF name \in {"search_web_criteria", "search_native_criteria"}
    THEN {Args([query |-> q, max_results |-> m]) :
             q \in QueryValues, m \in MaxResultsValues}
    ELSE IF ToolFound(name)
    THEN {Args([platform |-> p, component |-> c]) :
             p \in PlatformValues, c \in ComponentValues}
    ELSE {EmptyArgs}

CalledNames == {ToolNames[i] : i \in 1..Len(ToolNames)} \cup {"no_such_tool"}

\* params of the tools/call requests: arguments given, or left out
ToolParams ==
    UNION {{Params(name, arguments) :
               arguments \in ArgumentsFor(name)
                             \cup {Undefined, NonObject, Arr(<<>>)}} :
           name \in CalledNames}

Ping(id) == Request("ping", Undefined, id)

\* What a batch is made of
BatchElements ==
    {Null, NonObject, Ping(Num(1)), Ping(Num(2)),
     Request("notifications/initialized", Undefined, Undefined),
     Request("no/such/method", Undefined, Num(3)),
     Request("tools/list", Undefined, Num(4)),
     Request("initialize", Undefined, Num(5)),
     Request("tools/call", Undefined, Num(6)),
     Request("tools/call", NonObject, Num(10)),
     Request("tools/call", Params("no_such_tool", Undefined), Num(7)),
     Request("tools/call", Params("list_web_components", Undefined), Num(8)),
     Request("tools/call",
             Params("search_web_criteria", Args([query |-> Str(<<"+">>)])),
             Num(9))}

MaxBatch == 2

RECURSIVE Batches(_)
Batches(n) ==
    IF n = 0 THEN {<<>>}
    ELSE Batches(n - 1) \cup
         {Append(b, e) : b \in {x \in Batches(n - 1) : Len(x) = n - 1},
                         e \in BatchElements}

\* The bodies posted with one request: not JSON, or one of the elements,
\* or a tool call
SingleBodies ==
    {NotJson}
    \cup {JsonText(e) : e \in BatchElements}
    \cup {JsonText(Request("tools/call", p, Num(1))) : p \in ToolParams}

\* The bodies posted with a batch: the elements in any order, or a tool
\* call followed by a ping
BatchBodies ==
    {JsonText(Arr(b)) : b \in Batches(MaxBatch)}
    \cup {JsonText(Arr(<<Request("tools/call", p, Num(1)), Ping(Num(2))>>)) :
             p \in ToolParams}

HttpMethods == {"OPTIONS", "GET", "DELETE", "POST"}

-----------------------------------------------------------------------------
(* Invocations in flight.  handler and the call-tool handler registered on *)
(* the server are async functions: an invocation runs until an await,      *)
(* where other invocations may run, and goes on when the awaited promise   *)
(* has settled.  What an invocation holds across its awaits are its        *)
(* locals: the event or request, the requests still to handle, the         *)
(* responses collected, and the promise awaited.                           *)

Invocations == 1..MaxInvocations

NoEvent == [httpMethod |-> "", body |-> EmptyBody]

NoReply == [statusCode |-> 0, headers |-> corsHeaders, body |-> EmptyBody]

\* An invocation that has not started
NotInvoked ==
    [stage |-> "idle", kind |-> "none", event |-> NoEvent,
     request |-> Undefined, batch |-> FALSE, rest |-> <<>>,
     responses |-> <<>>, pending |-> Undefined, reply |-> NoReply]

NoFlights == [i \in Invocations |-> NotInvoked]

\* An array of responses that every invocation shared
ResponsesOfModule(flights, i) == flights[1].responses

\* const responses = []: the array is a local of the invocation
ResponsesOf(flights, i) == flights[i].responses

\* return {...}: the promise of the invocation resolves with the reply
Returns(flight, reply) ==
    [flight EXCEPT !.stage = "done", !.reply = reply, !.pending = Undefined,
                   !.rest = <<>>]

\* await handleJsonRpcRequest(server, req): the call runs, reading the
\* content as it is now, to its return or to its own
\* `await tool.handler(...)`, where the tool has run and the response is
\* not yet built; the invocation is suspended
Awaits(flight, request, rest, responses) ==
    IF CallsTool(request)
    THEN [flight EXCEPT !.stage = "awaitingTool",
                        !.request = request,
                        !.pending = ToolResultOf(Prop(request, "params")),
                        !.rest = rest, !.responses = responses]
    ELSE [flight EXCEPT !.stage = "awaiting",
                        !.pending = handleJsonRpcRequest(request),
                        !.rest = rest, !.responses = responses]

\* handleJsonRpcRequest, from `await tool.handler(...)` to its return of
\* {jsonrpc: '2.0', id, result}; handler stays suspended until its next job
BuildsResponse(flight) ==
    [flight EXCEPT !.stage = "awaiting",
                   !.request = Undefined,
                   !.pending = Success(Prop(flight.request, "id"), flight.pending)]

\* handler(event), from its first statement to its first await or its return
Begins(event) ==
    LET flight == [NotInvoked EXCEPT !.kind = "handler", !.event = event]
        request == Parse(event.body)
    IN  IF event.httpMethod # "POST" THEN Returns(flight, handler(event))
        ELSE IF request.t = "throw" THEN Returns(flight, ParseErrorReply(request))
        ELSE IF request.t = "array"
        THEN IF Len(request.v) = 0
             THEN Returns([flight EXCEPT !.batch = TRUE], BatchReply(Arr(<<>>)))
             ELSE Awaits([flight EXCEPT !.batch = TRUE],
                         request.v[1], Tail(request.v), <<>>)
        ELSE Awaits(flight, request, <<>>, <<>>)

\* The call-tool handler registered on the server, from its first statement
\* to `await tool.handler(request.params.arguments)`, or to its throw where
\* no tool is found: the tool has run when the invocation is suspended
BeginsCallTool(request) ==
    LET flight == [NotInvoked EXCEPT !.kind = "callTool", !.request = request]
        name == request.v.params.v.name
    IN  IF ~(name.t = "string" /\ ToolFound(name.v[1]))
        THEN Returns(flight, CallToolRequestHandler(request))
        ELSE [flight EXCEPT !.stage = "awaiting",
                            !.pending = CallToolRequestHandler(request)]

\* An invocation, from the await it was suspended at to the next await or to
\* its return; responses is the array as this invocation reads it
GoesOn(flight, responses) ==
    IF flight.stage = "awaitingTool" THEN BuildsResponse(flight)
    ELSE IF flight.kind = "callTool" THEN Returns(flight, flight.pending)
    ELSE IF ~flight.batch THEN Returns(flight, SingleReply(flight.pending))
    ELSE IF flight.pending.t = "throw"
    THEN Returns(flight, ParseErrorReply(flight.pending))
    ELSE LET pushed == IF flight.pending.t = "null" THEN responses
                       ELSE Append(responses, Serialized(flight.pending))
         IN  IF Len(flight.rest) = 0
             THEN Returns([flight EXCEPT !.responses = pushed],
                          BatchReply(Arr(pushed)))
             ELSE Awaits(flight, flight.rest[1], Tail(flight.rest), pushed)

-----------------------------------------------------------------------------
(* The callers: one call at a time, each on arguments of the bounded sets. *)

Alphabet == {"a", "b", "A", " ", ".", "+"}

RECURSIVE StringsUpTo(_)
StringsUpTo(n) ==
    IF n = 0 THEN {<<>>}
    ELSE StringsUpTo(n - 1) \cup
         {Append(s, c) : s \in {x \in StringsUpTo(n - 1) : Len(x) = n - 1},
                         c \in Alphabet}

Queries == StringsUpTo(MaxLen)
           \cup {<<"a", "+", "b">>, <<" ", "A", "b", " ">>, <<"a", ".", "b">>,
                 <<" ", "a", "-", "B">>,
                 <<"C", "h", "e", "c", "k", "b", "o", "x">>,
                 <<"g", "i", "v", "e", "n">>}

Platforms == {"web", "native", "ios", "constructor"}

Caps == {Undefined, Num(DefaultMaxResults)} \cup {Num(n) : n \in (-1)..MaxCap}

NoCall == [op |-> "none", platform |-> "", arg |-> Undefined,
           maxResults |-> Undefined]

\* The invocation a caller's reply came from, and the place it ran in
CallOf(flight, i) ==
    IF flight.kind = "handler"
    THEN [op |-> "handler", event |-> flight.event, slot |-> i]
    ELSE [op |-> "callTool", request |-> flight.request, slot |-> i]

\* The first place that is free
Free(i) == /\ inflight[i].stage = "idle"
           /\ \A j \in 1..(i - 1) : inflight[j].stage # "idle"

\* Invocation i has run up to `flight`: it is suspended at an await, or it
\* has returned and its caller holds the reply
Proceeds(i, flight, waiting) ==
    IF flight.stage = "done"
    THEN /\ inflight' = [inflight EXCEPT ![i] = NotInvoked]
         /\ pc' = "returned"
         /\ call' = CallOf(flight, i)
         /\ ret' = flight.reply
    ELSE /\ inflight' = [inflight EXCEPT ![i] = flight]
         /\ pc' = waiting
         /\ UNCHANGED <<call, ret>>

Init == /\ contentCache \in Contents
        /\ loads = 1
        /\ pc = "idle"
        /\ call = NoCall
        /\ ret = Undefined
        /\ inflight = NoFlights
        /\ locale \in Locales

FindComponent ==
    /\ pc = "idle"
    /\ \E platform \in Platforms, componentName \in {Str(s) : s \in Queries} :
          /\ call' = [op |-> "findComponent", platform |-> platform,
                      arg |-> componentName, maxResults |-> Undefined]
          /\ ret' = findComponent(platform, componentName)
          /\ contentCache' = contentAfterFind(platform, componentName)
    /\ loads' = LoadsAfterLoadContent(loads)
    /\ pc' = "returned"
    /\ UNCHANGED <<inflight, locale>>

SearchComponents ==
    /\ pc = "idle"
    /\ \E platform \in Platforms,
          query \in {Undefined} \cup {Str(s) : s \in Queries},
          maxResults \in Caps :
          /\ platform \notin {"web", "native"} => maxResults = Undefined
          /\ call' = [op |-> "searchComponents", platform |-> platform,
                      arg |-> query, maxResults |-> maxResults]
          /\ ret' = searchComponents(platform, query, maxResults)
    /\ loads' = LoadsAfterLoadContent(loads)
    /\ pc' = "returned"
    /\ UNCHANGED <<inflight, locale>>
    /\ UNCHANGED contentCache

ListComponents ==
    /\ pc = "idle"
    /\ \E platform \in Platforms,
          category \in {Null} \cup {Str(s) : s \in Queries} :
          /\ call' = [op |-> "listComponents", platform |-> platform,
                      arg |-> category, maxResults |-> Undefined]
          /\ ret' = listComponents(platform, category)
    /\ loads' = LoadsAfterLoadContent(loads)
    /\ pc' = "returned"
    /\ UNCHANGED <<inflight, locale>>
    /\ UNCHANGED contentCache

ListCategories ==
    /\ pc = "idle"
    /\ \E platform \in Platforms :
          /\ call' = [op |-> "listCategories", platform |-> platform,
                      arg |-> Undefined, maxResults |-> Undefined]
          /\ ret' = listCategories(platform)
    /\ loads' = LoadsAfterLoadContent(loads)
    /\ pc' = "returned"
    /\ UNCHANGED <<inflight, locale>>
    /\ UNCHANGED contentCache

ListComponentFormats ==
    /\ pc = "idle"
    /\ \E platform \in Platforms, componentName \in {Str(s) : s \in Queries} :
          /\ call' = [op |-> "listComponentFormats", platform |-> platform,
                      arg |-> componentName, maxResults |-> Undefined]
          /\ ret' = listComponentFormats(platform, componentName)
          /\ contentCache' = contentAfterFind(platform, componentName)
    /\ loads' = LoadsAfterLoadContent(loads)
    /\ pc' = "returned"
    /\ UNCHANGED <<inflight, locale>>

\* loadContent(): the instance returned, named by the load that made it
LoadContent ==
    /\ pc = "idle"
    /\ call' = [op |-> "loadContent", platform |-> "", arg |-> Undefined,
                maxResults |-> Undefined]
    /\ loads' = LoadsAfterLoadContent(loads)
    /\ ret' = [t |-> "instance", v |-> <<loads'>>]
    /\ pc' = "returned"
    /\ UNCHANGED <<inflight, locale>>
    /\ UNCHANGED contentCache

\* A tools/call request reaches the handler registered on the server; the
\* caller awaits the result
CallTool ==
    /\ pc = "idle"
    /\ \E i \in Invocations, params \in ToolParams :
          /\ Free(i)
          /\ Proceeds(i, BeginsCallTool(Request("tools/call", params, Num(1))),
                      "awaiting")
    /\ loads' = LoadsAfterLoadContent(loads)
    /\ UNCHANGED <<contentCache, locale>>

\* An HTTP request to the function; the caller awaits the reply
Http ==
    /\ pc = "idle"
    /\ \E i \in Invocations, httpMethod \in HttpMethods, batch \in BOOLEAN :
          \E body \in (IF batch THEN BatchBodies ELSE SingleBodies) :
             /\ Free(i)
             /\ httpMethod # "POST" => (~batch /\ body.t = "malformed")
             /\ Proceeds(i, Begins([httpMethod |-> httpMethod, body |-> body]),
                         "awaiting")
    /\ loads' = LoadsAfterLoadContent(loads)
    /\ UNCHANGED <<contentCache, locale>>

\* One job of the event loop: the promise an invocation awaits has settled
\* and the function suspended at it (handleJsonRpcRequest at its await of
\* the tool, or the invocation itself) goes on
Settle ==
    /\ pc \in {"idle", "awaiting"}
    /\ \E i \in Invocations :
          /\ inflight[i].stage \in {"awaiting", "awaitingTool"}
          /\ Proceeds(i, GoesOn(inflight[i], ResponsesOf(inflight, i)), pc)
    /\ loads' = LoadsAfterLoadContent(loads)
    /\ UNCHANGED <<contentCache, locale>>

\* The caller has read the result and may call again
Resume ==
    /\ pc = "returned"
    /\ pc' = "idle"
    /\ call' = NoCall
    /\ ret' = Undefined
    /\ UNCHANGED <<contentCache, loads, inflight, locale>>

Next == \/ LoadContent
        \/ FindComponent
        \/ SearchComponents
        \/ ListComponents
        \/ ListCategories
        \/ ListComponentFormats
        \/ Resume

Spec == Init /\ [][Next]_vars

\* The artifacts the server is explored on
ServerArrangements == {<<>>, <<2>>, <<1, 3>>, <<3, 2>>, <<4, 5>>}

ServerContents ==
    {[web |-> Arr(PickCategories(p)), native |-> Arr(NativeCategories)] :
        p \in ServerArrangements}
    \cup {[web |-> Arr(PickCategories(<<1>>))]}

InitServer == /\ contentCache \in ServerContents
              /\ loads = 1
              /\ pc = "idle"
              /\ call = NoCall
              /\ ret = Undefined
              /\ inflight = NoFlights
              /\ locale \in Locales

\* The helpers, the registered tool handler and the HTTP function
NextServer == \/ LoadContent
              \/ FindComponent
              \/ SearchComponents
              \/ ListComponents
              \/ ListCategories
              \/ ListComponentFormats
              \/ CallTool
              \/ Http
              \/ Settle
              \/ Resume

SpecServer == InitServer /\ [][NextServer]_vars

-----------------------------------------------------------------------------
(* Overlapping invocations: the platform invokes the function, and the     *)
(* server its call-tool handler, while earlier invocations are suspended.  *)

ToolCall(name, given, id) == Request("tools/call", Params(name, Args(given)), id)

\* The bodies posted with one request by the overlapping invocations
OverlapSingles ==
    {NotJson, JsonText(Null), JsonText(Ping(Num(1))),
     JsonText(Request("notifications/initialized", Undefined, Undefined)),
     JsonText(ToolCall("get_web_component", [component |-> Str(<<"a">>)], Num(2)))}

\* The batches posted by the overlapping invocations
OverlapBatches ==
    {JsonText(Arr(b)) :
        b \in {<<Ping(Num(1)),
                 ToolCall("search_web_criteria", [query |-> Str(<<"a">>)], Num(2))>>,
               <<Ping(Num(4)), Null, Ping(Num(5))>>,
               <<Request("notifications/initialized", Undefined, Undefined),
                 ToolCall("list_web_components", [category |-> Undefined], Num(6)),
                 Request("no/such/method", Undefined, Num(7))>>}}

\* The tools/call requests of the overlapping callers
OverlapCalls ==
    {ToolCall("list_web_components", [category |-> Undefined], Num(1)),
     ToolCall("search_web_criteria", [query |-> Str(<<"a">>)], Num(1)),
     ToolCall("no_such_tool", [category |-> Undefined], Num(1))}

OverlapContents ==
    {[web |-> Arr(PickCategories(<<1, 3>>)), native |-> Arr(NativeCategories)],
     [web |-> Arr(PickCategories(<<2>>))]}

InitOverlap == /\ contentCache \in OverlapContents
               /\ loads = 1
               /\ pc = "idle"
               /\ call = NoCall
               /\ ret = Undefined
               /\ inflight = NoFlights
               /\ locale \in Locales

\* The platform invokes handler(event) while other invocations may be
\* suspended
Invoke ==
    /\ pc = "idle"
    /\ \E i \in Invocations, httpMethod \in HttpMethods, batch \in BOOLEAN :
          \E body \in (IF batch THEN OverlapBatches ELSE OverlapSingles) :
             /\ Free(i)
             /\ httpMethod # "POST" => (~batch /\ body.t = "malformed")
             /\ Proceeds(i, Begins([httpMethod |-> httpMethod, body |-> body]),
                         "idle")
    /\ loads' = LoadsAfterLoadContent(loads)
    /\ UNCHANGED <<contentCache, locale>>

\* The server invokes its call-tool handler while other invocations may be
\* suspended
InvokeCallTool ==
    /\ pc = "idle"
    /\ \E i \in Invocations, request \in OverlapCalls :
          /\ Free(i)
          /\ Proceeds(i, BeginsCallTool(request), "idle")
    /\ loads' = LoadsAfterLoadContent(loads)
    /\ UNCHANGED <<contentCache, locale>>

NextOverlap == Invoke \/ InvokeCallTool \/ Settle \/ Resume

SpecOverlap == InitOverlap /\ [][NextOverlap]_vars

-----------------------------------------------------------------------------
(* The registered handler over platforms that hold more components than   *)
(* the not-found branch of get_web_component and get_native_component      *)
(* may suggest.                                                            *)

CompAba == Component(<<"a", "b", "a">>, <<"B", "+">>,
              [condensed |-> Str(<<"a">>)])

\* Platforms of more components than the suggestion limit, and of fewer
SuggestContents ==
    { [web |-> Arr(PickCategories(<<1, 2, 3>>)
                   \o << Category(<<"b", "b">>, <<"B", "b">>,
                                  Arr(<<CompAba>>)) >>),
       native |-> Arr(NativeCategories)],
      [web |-> Arr(PickCategories(<<3, 1>>)),
       native |-> Arr(NativeCategories)] }

InitNotFound == /\ contentCache \in SuggestContents
                /\ loads = 1
                /\ pc = "idle"
                /\ call = NoCall
                /\ ret = Undefined
                /\ inflight = NoFlights
                /\ locale \in Locales

NextNotFound == CallTool \/ Settle \/ Resume

SpecNotFound == InitNotFound /\ [][NextNotFound]_vars

-----------------------------------------------------------------------------
(* What the properties speak of: the stored components of a platform by    *)
(* their place (category index, child index), and the call that returned.  *)

KnownPlatforms == {"web", "native"}

StoredCategories(P) == IF P \in DOMAIN contentCache THEN contentCache[P].v ELSE <<>>

Places(P) ==
    UNION {{<<c, k>> : k \in 1..(IF StoredCategories(P)[c].children.t = "array"
                                 THEN Len(StoredCategories(P)[c].children.v)
                                 ELSE 0)} :
           c \in 1..Len(StoredCategories(P))}

Earlier(x, y) == x[1] < y[1] \/ (x[1] = y[1] /\ x[2] < y[2])

CategoryAt(P, x) == StoredCategories(P)[x[1]]
ComponentAt(P, x) == StoredCategories(P)[x[1]].children.v[x[2]]

\* The stored component with the label and name of its category attached
RecordAt(P, x) ==
    Obj([category |-> CategoryAt(P, x).label,
         categoryName |-> CategoryAt(P, x).name] @@ ComponentAt(P, x))

Returned(op) == pc = "returned" /\ call.op = op

SameLetter(c, d) == \/ c = d
                    \/ {c, d} \in {{"a", "A"}, {"b", "B"}, {"c", "C"}, {"g", "G"}}

\* x is `name` up to letter case, between i leading and j trailing blanks
EqualUpToCaseAndBlanks(x, name) ==
    \E i \in 0..Len(x), j \in 0..Len(x) :
        /\ i + Len(name) + j = Len(x)
        /\ \A k \in 1..i : x[k] = " "
        /\ \A k \in 1..j : x[Len(x) + 1 - k] = " "
        /\ \A k \in 1..Len(name) : SameLetter(x[i + k], name[k])

Lowered(s) == ToLowerCase(s)
Normalized(x) == Trim(ToLowerCase(x))

\* The component at place x has the normalized query as its lower-cased name
NameIs(P, x, q) == Lowered(ComponentAt(P, x).name.v) = q

\* The lower-cased name or label of the component at x contains q
NameOrLabelContains(P, x, q) ==
    \/ Includes(Lowered(ComponentAt(P, x).name.v), q)
    \/ Includes(Lowered(ComponentAt(P, x).label.v), q)

-----------------------------------------------------------------------------
\* C1: for a known platform P and every component C stored under P,
\* findComponent(P, x) returns the record of C whenever x is C.name up to
\* letter case and surrounding whitespace.
C1_ExactMatchInvariant ==
    (Returned("findComponent") /\ call.platform \in KnownPlatforms) =>
        \A x \in Places(call.platform) :
            EqualUpToCaseAndBlanks(call.arg.v, ComponentAt(call.platform, x).name.v)
                => ret = RecordAt(call.platform, x)

\* A lookup by a name written in another case and between blanks resolved
C1_Witness ==
    /\ Returned("findComponent")
    /\ call.platform = "web"
    /\ call.arg.v = <<" ", "A", "b", " ">>
    /\ ret.t = "object"
    /\ ret.v.name.v = <<"a", "b">>

\* C2: findComponent(P, "") returns null, and so does findComponent(P, x)
\* when x equals no component name and is contained in no name or label.
C2_EmptyOrUnmatchedIsNotFound ==
    (Returned("findComponent") /\ call.platform \in KnownPlatforms) =>
        /\ call.arg.v = <<>> => ret = Null
        /\ (\A x \in Places(call.platform) :
                /\ ~NameIs(call.platform, x, Normalized(call.arg.v))
                /\ ~NameOrLabelContains(call.platform, x, Normalized(call.arg.v)))
             => ret = Null

\* C3: when some component of P has a name equal to the normalized query,
\* that component is returned, also when a component scanned earlier
\* contains the query in its name or label.
C3_ExactBeforeFuzzy ==
    (Returned("findComponent") /\ call.platform \in KnownPlatforms) =>
        \A x \in Places(call.platform) :
            NameIs(call.platform, x, Normalized(call.arg.v))
                => ret = RecordAt(call.platform, x)

\* The exact match was returned over an earlier component that contains it
C3_Witness ==
    /\ Returned("findComponent")
    /\ call.platform \in KnownPlatforms
    /\ \E x, y \in Places(call.platform) :
          /\ Earlier(y, x)
          /\ NameIs(call.platform, x, Normalized(call.arg.v))
          /\ NameOrLabelContains(call.platform, y, Normalized(call.arg.v))
          /\ ret = RecordAt(call.platform, x)

\* C4: when no component of P has a name equal to the normalized query,
\* findComponent returns the first component in category order then child
\* order whose lower-cased name or label contains it, never a later one.
C4_FirstFuzzyMatchWins ==
    (/\ Returned("findComponent")
     /\ call.platform \in KnownPlatforms
     /\ \A x \in Places(call.platform) :
            ~NameIs(call.platform, x, Normalized(call.arg.v))) =>
        \A x \in Places(call.platform) :
            (/\ NameOrLabelContains(call.platform, x, Normalized(call.arg.v))
             /\ \A y \in Places(call.platform) :
                    Earlier(y, x) =>
                        ~NameOrLabelContains(call.platform, y, Normalized(call.arg.v)))
                => ret = RecordAt(call.platform, x)

\* A fuzzy match by label alone won over a later component that matches too
C4_Witness ==
    /\ Returned("findComponent")
    /\ call.platform \in KnownPlatforms
    /\ Len(Normalized(call.arg.v)) > 0
    /\ \E x, y \in Places(call.platform) :
          /\ Earlier(x, y)
          /\ \A z \in Places(call.platform) :
                 ~NameIs(call.platform, z, Normalized(call.arg.v))
          /\ ~Includes(Lowered(ComponentAt(call.platform, x).name.v),
                       Normalized(call.arg.v))
          /\ NameOrLabelContains(call.platform, x, Normalized(call.arg.v))
          /\ NameOrLabelContains(call.platform, y, Normalized(call.arg.v))
          /\ ret = RecordAt(call.platform, x)

-----------------------------------------------------------------------------
(* The scoring rule as stated: literal, non-overlapping occurrences.       *)

\* Non-overlapping occurrences of q in s as a literal substring, from `from`
RECURSIVE CountLiteral(_, _, _)
CountLiteral(q, s, from) ==
    LET starts == {i \in from..(Len(s) + 1) : HasAt(s, q, i)}
    IN  IF starts = {} THEN 0
        ELSE LET st == CHOOSE i \in starts : \A j \in starts : i <= j
             IN  1 + CountLiteral(q, s, st + (IF Len(q) = 0 THEN 1 ELSE Len(q)))

StatedWeights == << <<"label", 10>>, <<"name", 10>>, <<"generalNotes", 5>>,
                    <<"gherkin", 3>>, <<"condensed", 3>>, <<"developerNotes", 2>>,
                    <<"androidDeveloperNotes", 2>>, <<"iosDeveloperNotes", 2>> >>

\* The field is a non-empty string that contains q, whatever the case
FieldContains(component, field, q) ==
    /\ component[field].t = "string"
    /\ Len(component[field].v) > 0
    /\ Includes(Lowered(component[field].v), q)

RECURSIVE StatedScore(_, _, _)
StatedScore(component, q, k) ==
    IF k > Len(StatedWeights) THEN 0
    ELSE (IF FieldContains(component, StatedWeights[k][1], q)
          THEN StatedWeights[k][2]
               + CountLiteral(q, Lowered(component[StatedWeights[k][1]].v), 1) - 1
          ELSE 0) + StatedScore(component, q, k + 1)

RECURSIVE ContainingFields(_, _, _)
ContainingFields(component, q, k) ==
    IF k > Len(StatedWeights) THEN <<>>
    ELSE (IF FieldContains(component, StatedWeights[k][1], q)
          THEN <<StatedWeights[k][1]>> ELSE <<>>)
         \o ContainingFields(component, q, k + 1)

SearchReturnedList == Returned("searchComponents") /\ ret.t = "array"

\* The search ran over a loaded platform with a non-empty query string
SearchRan == /\ Returned("searchComponents")
             /\ call.platform \in DOMAIN contentCache
             /\ call.arg.t = "string"
             /\ Len(call.arg.v) > 0

\* C5: the score of every match is the sum, over the weighted fields that
\* contain the normalized query, of weight + (n - 1), n the number of
\* non-overlapping literal occurrences of the query in the field.
C5_ScoreIsWeightPlusRepeats ==
    SearchReturnedList =>
        \A i \in 1..Len(ret.v) :
            \E x \in Places(call.platform) :
                /\ ComponentAt(call.platform, x).name = ret.v[i].name
                /\ ret.v[i].score =
                      StatedScore(ComponentAt(call.platform, x),
                                  Normalized(call.arg.v), 1)

CodeUnit(c) == CASE c = " " -> 32
                 [] c = "+" -> 43
                 [] c = "-" -> 45
                 [] c = "." -> 46
                 [] c = "A" -> 65
                 [] c = "B" -> 66
                 [] c = "a" -> 97
                 [] c = "b" -> 98

\* a <= b in lexicographic order
RECURSIVE LexLeq(_, _)
LexLeq(a, b) ==
    IF Len(a) = 0 THEN TRUE
    ELSE IF Len(b) = 0 THEN FALSE
    ELSE IF CodeUnit(a[1]) # CodeUnit(b[1]) THEN CodeUnit(a[1]) < CodeUnit(b[1])
    ELSE LexLeq(Tail(a), Tail(b))

\* C6: the returned sequence is ordered by score descending, and results of
\* equal score are in ascending lexicographic order of name, whatever the
\* locale of the host.
C6_RankedOrder ==
    SearchReturnedList =>
        \A i \in 1..(Len(ret.v) - 1) :
            \/ ret.v[i].score > ret.v[i + 1].score
            \/ /\ ret.v[i].score = ret.v[i + 1].score
               /\ LexLeq(ret.v[i].name.v, ret.v[i + 1].name.v)

\* The complete ranked list of matches of the call
CompleteRanking ==
    IF SearchRan THEN Ranked(contentCache[call.platform], Normalized(call.arg.v))
    ELSE <<>>

IsPrefix(a, b) == Len(a) <= Len(b) /\ a = SubSeq(b, 1, Len(a))

\* C7 as stated: for every numeric maxResults the result has no more than
\* maxResults entries and is the leading prefix of the complete ranked list.
C7_CapForEveryNumber ==
    (SearchReturnedList /\ call.maxResults.t = "number") =>
        /\ Len(ret.v) <= call.maxResults.v[1]
        /\ IsPrefix(ret.v, CompleteRanking)
        /\ call.maxResults.v[1] >= Len(CompleteRanking) => ret.v = CompleteRanking

\* C7 amended: for every maxResults >= 0 the result has no more than
\* maxResults entries; for every numeric maxResults it is the leading prefix
\* of the complete ranked list, all of it when maxResults is not below its
\* length.
C7_CapForNonNegative ==
    (SearchReturnedList /\ call.maxResults.t = "number") =>
        /\ call.maxResults.v[1] >= 0 => Len(ret.v) <= call.maxResults.v[1]
        /\ IsPrefix(ret.v, CompleteRanking)
        /\ call.maxResults.v[1] >= Len(CompleteRanking) => ret.v = CompleteRanking

\* A cap of 1 cut a ranking of several matches down to its first entry
C7_Witness ==
    /\ SearchReturnedList
    /\ call.maxResults = Num(1)
    /\ Len(CompleteRanking) >= 2
    /\ ret.v = <<CompleteRanking[1]>>

\* C8: a component is in the untruncated result exactly when one of its
\* weighted string fields contains the normalized query; every match has
\* score > 0 and matchedFields lists exactly the containing fields in order.
C8_MatchesExactlyContaining ==
    (SearchRan /\ call.maxResults.t = "undefined") =>
        /\ ret.t = "array"
        /\ \A x \in Places(call.platform) :
              (\E i \in 1..Len(ret.v) :
                   ret.v[i].name = ComponentAt(call.platform, x).name)
              <=> ContainingFields(ComponentAt(call.platform, x),
                                   Normalized(call.arg.v), 1) # <<>>
        /\ \A i \in 1..Len(ret.v) :
              /\ ret.v[i].score > 0
              /\ ret.v[i].matchedFields # <<>>
              /\ \E x \in Places(call.platform) :
                    /\ ret.v[i].name = ComponentAt(call.platform, x).name
                    /\ ret.v[i].matchedFields =
                          ContainingFields(ComponentAt(call.platform, x),
                                           Normalized(call.arg.v), 1)

\* C9: searchComponents returns an empty sequence, without raising, when
\* the query is empty or missing or the platform is no loaded platform key.
C9_EmptyOnBadInput ==
    (/\ Returned("searchComponents")
     /\ \/ call.arg.t = "undefined"
        \/ (call.arg.t = "string" /\ Len(call.arg.v) = 0)
        \/ call.platform \notin DOMAIN contentCache) =>
        ret = Arr(<<>>)

\* C10: findComponent, listComponents, listCategories and searchComponents
\* return a value for every platform string and every name or query string
\* and never raise.
C10_NeverRaises == pc = "returned" => ret.t # "throw"

-----------------------------------------------------------------------------
\* C11: every record returned by findComponent and every entry returned by
\* listComponents and searchComponents has category equal to the label and
\* categoryName equal to the name of the category that encloses the
\* component in the stored collection.
HasEnclosingCategory(P, r) ==
    \E x \in Places(P) :
        /\ ComponentAt(P, x).name = r.name
        /\ r.category = CategoryAt(P, x).label
        /\ r.categoryName = CategoryAt(P, x).name

C11_CategoryOfEnclosing ==
    /\ (Returned("findComponent") /\ ret.t = "object") =>
           HasEnclosingCategory(call.platform, ret.v)
    /\ ((Returned("listComponents") \/ Returned("searchComponents"))
          /\ ret.t = "array") =>
           \A i \in 1..Len(ret.v) : HasEnclosingCategory(call.platform, ret.v[i])

\* A component of the second stored category was resolved
C11_Witness ==
    /\ Returned("findComponent")
    /\ ret.t = "object"
    /\ \E x \in Places(call.platform) :
          /\ x[1] = 2
          /\ ComponentAt(call.platform, x).name = ret.v.name
          /\ ret.v.category = CategoryAt(call.platform, x).label

\* C12: no operation changes the Document Collection; the category and
\* categoryName of a match are written to a copy, never to a stored
\* Component.
C12_CollectionNeverMutated == [][contentCache' = contentCache]_vars

\* A lookup has returned an augmented record while the stored component
\* still has no category of its own
C12_Witness ==
    /\ Returned("findComponent")
    /\ ret.t = "object"
    /\ "category" \in DOMAIN ret.v
    /\ \A x \in Places(call.platform) :
          "category" \notin DOMAIN ComponentAt(call.platform, x)

\* The stored component that findComponent resolves for the call
Resolved == findComponent(call.platform, call.arg)

\* The field is there and holds something: a string or a list of length > 0
PresentAndNonEmpty(value) ==
    /\ value.t \notin {"undefined", "null"}
    /\ value.t \in {"string", "array"} => Len(value.v) > 0

\* The field is there and is not falsy: a non-empty string, or any list or
\* object, the empty list included
PresentAndNonFalsy(value) ==
    /\ value.t \notin {"undefined", "null"}
    /\ value.t = "string" => Len(value.v) > 0

\* C13 (as stated): listComponentFormats returns null exactly when
\* findComponent does; otherwise each of the seven flags is true if and only
\* if the resolved component has that field present and non-empty.
C13_FlagsIffNonEmpty ==
    Returned("listComponentFormats") =>
       /\ (ret = Null) <=> (Resolved = Null)
       /\ ret.t = "object" =>
             \A f \in FormatNames :
                ret.v.formats[f] <=> PresentAndNonEmpty(Resolved.v[f])

\* C13 (amended): listComponentFormats returns null exactly when
\* findComponent does; otherwise each of the seven flags is true if and only
\* if the resolved component has that field present and not falsy, so that a
\* field holding an empty list is reported as available.
C13_FlagsIffNonFalsy ==
    Returned("listComponentFormats") =>
       /\ (ret = Null) <=> (Resolved = Null)
       /\ ret.t = "object" =>
             /\ ret.v.name = Resolved.v.name
             /\ \A f \in FormatNames :
                   ret.v.formats[f] <=> PresentAndNonFalsy(Resolved.v[f])

\* A report with a field that is stored as the empty string, flag false,
\* next to a field that holds text, flag true
C13_Witness ==
    /\ Returned("listComponentFormats")
    /\ ret.t = "object"
    /\ \E f, g \in FormatNames :
          /\ Resolved.v[f] = Str(<<>>)
          /\ ~ret.v.formats[f]
          /\ Resolved.v[g].t = "string"
          /\ ret.v.formats[g]

\* The listing entry of the stored component at place x
SummaryAt(P, x) ==
    [name |-> ComponentAt(P, x).name, label |-> ComponentAt(P, x).label,
     category |-> CategoryAt(P, x).label, categoryName |-> CategoryAt(P, x).name]

\* The position of place x among the places X, category then child order
RankIn(X, x) == Cardinality({y \in X : Earlier(y, x)}) + 1

\* entries lists exactly the components at the places X, in stored order
ListsExactly(entries, P, X) ==
    /\ Len(entries) = Cardinality(X)
    /\ \A x \in X : entries[RankIn(X, x)] = SummaryAt(P, x)

RECURSIVE SumOfCounts(_)
SumOfCounts(entries) ==
    IF Len(entries) = 0 THEN 0
    ELSE entries[1].componentCount + SumOfCounts(Tail(entries))

\* C14: for a platform of the collection, listComponents without a filter
\* returns one entry per child of every category, in category then child
\* order; listCategories returns one entry per category in stored order
\* with componentCount the number of its children; the counts sum to the
\* length of the unfiltered listing.
C14_ListingAndCounts ==
    /\ (Returned("listComponents") /\ call.arg = Null
          /\ call.platform \in KnownPlatforms) =>
          /\ ret.t = "array"
          /\ ListsExactly(ret.v, call.platform, Places(call.platform))
    /\ (Returned("listCategories") /\ call.platform \in KnownPlatforms) =>
          /\ ret.t = "array"
          /\ Len(ret.v) = Len(StoredCategories(call.platform))
          /\ \A c \in 1..Len(ret.v) :
                /\ ret.v[c].name = StoredCategories(call.platform)[c].name
                /\ ret.v[c].label = StoredCategories(call.platform)[c].label
                /\ ret.v[c].componentCount =
                      Cardinality({x \in Places(call.platform) : x[1] = c})
          /\ SumOfCounts(ret.v) = Len(listComponents(call.platform, Null).v)

\* The unfiltered listing of a platform with two categories that hold
\* components, three or more entries long
C14_Witness ==
    /\ Returned("listComponents")
    /\ call.arg = Null
    /\ ret.t = "array"
    /\ Len(ret.v) >= 3
    /\ \E x, y \in Places(call.platform) : x[1] # y[1]

\* a and b are the same text up to letter case
EqualIgnoringCase(a, b) ==
    /\ Len(a) = Len(b)
    /\ \A k \in 1..Len(a) : SameLetter(a[k], b[k])

\* The places of the categories whose name is the filter, case ignored
PlacesInCategory(P, filter) ==
    {x \in Places(P) : EqualIgnoringCase(CategoryAt(P, x).name.v, filter)}

\* The first half of C15: the filtered listing of a platform of the
\* collection
FilteredListing ==
    (Returned("listComponents") /\ Truthy(call.arg)
      /\ call.platform \in KnownPlatforms) =>
       /\ ret.t = "array"
       /\ ListsExactly(ret.v, call.platform,
                       PlacesInCategory(call.platform, call.arg.v))

\* C15: listComponents with a category filter returns exactly the children
\* of the categories whose name equals the filter case-insensitively, in
\* stored order; listComponents and listCategories return an empty
\* sequence, not an error, for a platform that is not a key of the
\* collection.
C15_FilterAndUnknownPlatform ==
    /\ FilteredListing
    /\ ((Returned("listComponents") \/ Returned("listCategories"))
          /\ call.platform \notin DOMAIN contentCache) =>
          ret = Arr(<<>>)

\* C16: every call of loadContent returns the same instance, the one made
\* by the single load; no call materialises the collection again.
C16_LoadedOnce ==
    /\ loads = 1
    /\ Returned("loadContent") => ret = [t |-> "instance", v |-> <<1>>]

\* loadContent has been called and has returned
C16_Witness == Returned("loadContent") /\ ret.t = "instance"

-----------------------------------------------------------------------------
(* The tools and the transports *)

\* The tool named by the request in `call`, and the arguments it carries
CalledTool == call.request.v.params.v.name.v[1]
CalledArguments == call.request.v.params.v.arguments

\* The registered handler has returned a text response
ToolReturned(names) ==
    /\ Returned("callTool")
    /\ CalledTool \in names
    /\ "content" \in DOMAIN ret

TextOf(response) == response.content[1].text

\* The parameter is not given, or is the empty string
AbsentOrEmpty(key, value) ==
    \/ value.t = "undefined"
    \/ (key = "platform" /\ value.v[1] = "")
    \/ (key # "platform" /\ value.t = "string" /\ Len(value.v) = 0)

\* The texts that name, list or render a stored component
ContentTemplates ==
    {"# Accessibility Components", "# component", "# Search Results",
     "# Acceptance Criteria", "No criteria available", "# Developer Notes",
     "No developer notes available", "# Native Developer Notes",
     "No native developer notes available", "# Available Formats"}

\* C17: a tool called with a required parameter absent or empty never
\* resolves, lists or renders a component: its response is a message about
\* the parameter.
C17_RequiredParametersChecked ==
    (/\ Returned("callTool")
     /\ ToolFound(CalledTool)
     /\ CalledArguments.t = "object"
     /\ \E key \in required(CalledTool) :
           AbsentOrEmpty(key, CalledArguments.v[key])) =>
       TextOf(ret).template \notin ContentTemplates

\* xs can be read off ys left to right
RECURSIVE IsSubsequence(_, _)
IsSubsequence(xs, ys) ==
    IF Len(xs) = 0 THEN TRUE
    ELSE IF Len(ys) = 0 THEN FALSE
    ELSE IF xs[1] = ys[1] THEN IsSubsequence(Tail(xs), Tail(ys))
    ELSE IsSubsequence(xs, Tail(ys))

\* The platform a get tool reads
PlatformOfTool(name) == IF name = "get_web_component" THEN "web" ELSE "native"

\* label and name of every component of the platform, in listing order
Listing(P) ==
    [i \in 1..Len(listComponents(P, Null).v) |->
        [label |-> listComponents(P, Null).v[i].label,
         name |-> listComponents(P, Null).v[i].name]]

ContainsText(s, text) ==
    \/ Includes(Lowered(s.name.v), Lowered(text))
    \/ Includes(Lowered(s.label.v), Lowered(text))

NotFoundReturned ==
    /\ ToolReturned({"get_web_component", "get_native_component"})
    /\ TextOf(ret).template = "Component not found."

\* The suggestions are at most 5, each a component of the platform whose
\* name or label contains the text up to letter case, in listing order
WellSuggested(suggestions, P, text) ==
    /\ Len(suggestions) <= 5
    /\ IsSubsequence(suggestions, Listing(P))
    /\ \A i \in 1..Len(suggestions) : ContainsText(suggestions[i], text)

\* The components of the platform that contain the text
Containing(P, text) ==
    {i \in 1..Len(Listing(P)) : ContainsText(Listing(P)[i], text)}

\* C18: the not-found response of get_web_component and
\* get_native_component names at most 5 suggestions, each a component of
\* the platform whose name or label contains the requested text, in listing
\* order.
C18_SuggestionsOfNotFound ==
    NotFoundReturned =>
       /\ Prop(CalledArguments, "component").t = "string"
       /\ WellSuggested(TextOf(ret).suggestions, PlatformOfTool(CalledTool),
                        Prop(CalledArguments, "component").v)

\* A component was asked for by a text that no name or label contains, of
\* a platform that holds more components than may be suggested, and the
\* not-found response came back
C18_Witness ==
    /\ NotFoundReturned
    /\ Prop(CalledArguments, "component").t = "string"
    /\ Len(Prop(CalledArguments, "component").v) > 0
    /\ Len(Listing(PlatformOfTool(CalledTool))) > 5
    /\ Containing(PlatformOfTool(CalledTool),
                  Prop(CalledArguments, "component").v) = {}

\* The request is an object that names a method and is not a notification
AnswerableElement(request) ==
    /\ request.t = "object"
    /\ request.v.method.t = "string"
    /\ request.v.method.v[1] # "notifications/initialized"

\* The responses carried by an HTTP reply, in the order of the reply
RepliedResponses(reply) ==
    IF reply.body.t # "json" THEN <<>>
    ELSE IF reply.body.v[1].t = "array" THEN reply.body.v[1].v
    ELSE <<reply.body.v[1]>>

\* Two responses that answer the same request alike
SameResponse(a, b) ==
    /\ DOMAIN a.v = DOMAIN b.v
    /\ "id" \in DOMAIN a.v => a.v.id = b.v.id
    /\ "error" \in DOMAIN a.v => a.v.error = b.v.error
    /\ "result" \in DOMAIN a.v =>
          /\ DOMAIN a.v.result = DOMAIN b.v.result
          /\ "content" \in DOMAIN a.v.result =>
                TextOf(a.v.result).template = TextOf(b.v.result).template
          /\ a.v.result = b.v.result

PostedBatch ==
    /\ Returned("handler")
    /\ call.event.httpMethod = "POST"
    /\ call.event.body.t = "json"
    /\ call.event.body.v[1].t = "array"

\* C19: in a batch, whatever the other elements are (unknown method,
\* unknown tool, a failing tool, null, a non-object), every element that is
\* a request and not a notification gets, in the same HTTP reply, the
\* response it gets when handled on its own.
C19_BatchFailureConfined ==
    PostedBatch =>
       \A i \in 1..Len(call.event.body.v[1].v) :
          LET request == call.event.body.v[1].v[i]
          IN  AnswerableElement(request) =>
                /\ ret.statusCode = 200
                /\ \E k \in 1..Len(RepliedResponses(ret)) :
                      SameResponse(RepliedResponses(ret)[k],
                                   Serialized(handleJsonRpcRequest(request)))

\* What a caller gets back from a tool call: the tool result or the error
OutcomeOfHandler(returned) ==
    IF "content" \in DOMAIN returned
    THEN [kind |-> "result", text |-> TextOf(returned)]
    ELSE [kind |-> "error", text |-> [template |-> returned.v[1]]]

OutcomeOfResponse(response) ==
    IF "result" \in DOMAIN response
    THEN [kind |-> "result", text |-> TextOf(response.result)]
    ELSE [kind |-> "error", text |-> [template |-> response.error.message]]

SameOutcome(a, b) ==
    /\ a.kind = b.kind
    /\ a.text.template = b.text.template
    /\ a.text = b.text

\* The same call sent as a single stateless POST
ViaPost(request) ==
    OutcomeOfResponse(
        handler([httpMethod |-> "POST", body |-> JsonText(request)]).body.v[1].v)

\* The same call sent as the first element of a batch
ViaBatch(request) ==
    OutcomeOfResponse(
        handler([httpMethod |-> "POST",
                 body |-> JsonText(Arr(<<request, Ping(Num(2))>>))]).body.v[1].v[1].v)

\* C20: a tool call yields the same result through the registered call-tool
\* handler, through a single stateless POST and as an element of a batch,
\* for every tool name and argument set, absent arguments included.
C20_SameResultOnEveryPath ==
    Returned("callTool") =>
       /\ SameOutcome(OutcomeOfHandler(ret), ViaPost(call.request))
       /\ SameOutcome(OutcomeOfHandler(ret), ViaBatch(call.request))

-----------------------------------------------------------------------------
\* C21: with the dataset whose platform web holds the single category
\* {controls, Controls} with the single child {checkbox, Checkbox, gherkin
\* "Given..."}, findComponent("web", "Checkbox") returns that component with
\* category "Controls", and searchComponents("web", "given", 10) returns
\* exactly one match, with matchedFields <<"gherkin">> and score 3.
C21_ControlsCheckboxExample ==
    contentCache = ControlsContent =>
        /\ ( /\ Returned("findComponent")
             /\ call.platform = "web"
             /\ call.arg = Str(<<"C", "h", "e", "c", "k", "b", "o", "x">>) ) =>
                /\ ret.t = "object"
                /\ ret.v.name = CompCheckbox.name
                /\ ret.v.label = CompCheckbox.label
                /\ ret.v.gherkin = CompCheckbox.gherkin
                /\ ret.v.category = Str(<<"C", "o", "n", "t", "r", "o", "l", "s">>)
        /\ ( /\ Returned("searchComponents")
             /\ call.platform = "web"
             /\ call.arg = Str(<<"g", "i", "v", "e", "n">>)
             /\ call.maxResults = Num(10) ) =>
                /\ ret.t = "array"
                /\ Len(ret.v) = 1
                /\ ret.v[1].name = CompCheckbox.name
                /\ ret.v[1].matchedFields = <<"gherkin">>
                /\ ret.v[1].score = 3

\* The search for "given" capped at 10 returned over the Controls dataset
C21_Witness ==
    /\ contentCache = ControlsContent
    /\ Returned("searchComponents")
    /\ call.platform = "web"
    /\ call.arg = Str(<<"g", "i", "v", "e", "n">>)
    /\ call.maxResults = Num(10)
    /\ ret.t = "array"
    /\ Len(ret.v) = 1

-----------------------------------------------------------------------------
\* The tools that search a platform
SearchTools == {"search_web_criteria", "search_native_criteria"}

\* The number of matches the search response lists
ListedMatches(text) ==
    IF text.template = "# Search Results" THEN Len(text.results) ELSE 0

\* C22: in search_web_criteria and search_native_criteria every numeric
\* max_results the caller supplies, 0 included, is itself the cap: the
\* response never lists more than max_results matches.
C22_SuppliedCapIsTheCap ==
    (/\ ToolReturned(SearchTools)
     /\ CalledArguments.t = "object"
     /\ CalledArguments.v.max_results.t = "number"
     /\ CalledArguments.v.max_results.v[1] >= 0) =>
       ListedMatches(TextOf(ret)) <= CalledArguments.v.max_results.v[1]

\* The same bound for the caps that are positive
C22_PositiveCapIsTheCap ==
    (/\ ToolReturned(SearchTools)
     /\ CalledArguments.t = "object"
     /\ CalledArguments.v.max_results.t = "number"
     /\ CalledArguments.v.max_results.v[1] > 0) =>
       ListedMatches(TextOf(ret)) <= CalledArguments.v.max_results.v[1]

-----------------------------------------------------------------------------
\* The tools that return one section, or the formats, of a component
SectionTools == {"get_component_gherkin", "get_component_condensed",
                 "get_component_developer_notes", "get_component_native_notes",
                 "list_component_formats"}

\* The platform in which the tool resolves the component
ResolutionPlatform(tool, args) ==
    IF tool = "get_component_native_notes" THEN "native"
    ELSE PlatformKey(args.platform)

\* The platform parameter names no platform the tool serves
UnknownPlatform(tool, args) ==
    IF tool = "get_component_native_notes"
    THEN PlatformKey(args.platform) \notin {"ios", "android"}
    ELSE PlatformKey(args.platform) \notin DOMAIN contentCache

\* The sections the tool renders of a component resolved in platform P
SectionsOf(tool, args, P) ==
    CASE tool = "get_component_gherkin" -> {"gherkin"}
      [] tool = "get_component_condensed" -> {"condensed"}
      [] tool = "get_component_developer_notes" ->
            {"developerNotes"} \cup
            (IF P = "native" THEN {"iosDeveloperNotes", "androidDeveloperNotes"}
             ELSE {})
      [] tool = "get_component_native_notes" ->
            (IF PlatformKey(args.platform) = "ios" THEN {"iosDeveloperNotes"}
             ELSE {"androidDeveloperNotes"})
      [] OTHER -> {}

\* The component does not resolve, or resolves and holds none of the
\* sections the tool renders
NothingToRender(tool, args) ==
    LET P == ResolutionPlatform(tool, args)
        found == findComponent(P, args.component)
    IN  \/ found.t # "object"
        \/ /\ tool # "list_component_formats"
           /\ \A f \in SectionsOf(tool, args, P) : ~PresentAndNonEmpty(found.v[f])

NotFoundTemplates == {"Component not found for platform",
                      "Native component not found."}

NoContentTemplates == {"No criteria available", "No developer notes available",
                       "No native developer notes available"}

\* C24: get_component_gherkin, get_component_condensed,
\* get_component_developer_notes, get_component_native_notes and
\* list_component_formats, when the platform is unknown, the component does
\* not resolve, or the requested section is absent or empty on the resolved
\* component, return a text that says the component was not found or that
\* no such content is available.
C24_DescriptiveResult ==
    (/\ ToolReturned(SectionTools)
     /\ CalledArguments.t = "object"
     /\ \/ UnknownPlatform(CalledTool, CalledArguments.v)
        \/ NothingToRender(CalledTool, CalledArguments.v)) =>
       TextOf(ret).template \in NotFoundTemplates \cup NoContentTemplates

\* The same, where the text of a caught error also counts as descriptive
C24_DescriptiveOrErrorText ==
    (/\ ToolReturned(SectionTools)
     /\ CalledArguments.t = "object"
     /\ \/ UnknownPlatform(CalledTool, CalledArguments.v)
        \/ NothingToRender(CalledTool, CalledArguments.v)) =>
       \/ TextOf(ret).template \in NotFoundTemplates \cup NoContentTemplates
       \/ "message" \in DOMAIN TextOf(ret)

\* The same, for the four tools that resolve in the platform they are given
C24_DescriptiveButNativeNotes ==
    (/\ ToolReturned(SectionTools \ {"get_component_native_notes"})
     /\ CalledArguments.t = "object"
     /\ \/ UnknownPlatform(CalledTool, CalledArguments.v)
        \/ NothingToRender(CalledTool, CalledArguments.v)) =>
       \/ TextOf(ret).template \in NotFoundTemplates \cup NoContentTemplates
       \/ "message" \in DOMAIN TextOf(ret)

-----------------------------------------------------------------------------
\* C25: whenever get_web_component or get_native_component reports a
\* component as not found, its list of suggestions is empty: a component
\* whose name or label contains the requested text would have been returned
\* by the partial pass of findComponent.
C25_NoSuggestionEverMade ==
    NotFoundReturned => Len(TextOf(ret).suggestions) = 0

\* get_native_component reported a text as not found over a native
\* platform that holds components
C25_Witness ==
    /\ NotFoundReturned
    /\ CalledTool = "get_native_component"
    /\ Prop(CalledArguments, "component") = Str(<<"b", "b">>)
    /\ Len(Listing("native")) > 0
    /\ Len(TextOf(ret).suggestions) = 0

-----------------------------------------------------------------------------
\* The stated weight of a field
WeightOf(field) ==
    StatedWeights[CHOOSE k \in 1..Len(StatedWeights) :
                     StatedWeights[k][1] = field][2]

RECURSIVE SumOfWeights(_)
SumOfWeights(fields) ==
    IF Len(fields) = 0 THEN 0
    ELSE WeightOf(fields[1]) + SumOfWeights(Tail(fields))

\* C26: for every query string, the characters that are special in regular
\* expressions included, the score of every match is at least the sum of
\* the weights of the fields in its matchedFields: the occurrence bonus of
\* a field is never negative.
C26_BonusNeverNegative ==
    SearchReturnedList =>
        \A i \in 1..Len(ret.v) :
            ret.v[i].score >= SumOfWeights(ret.v[i].matchedFields)

\* The same bound for the queries written with letters and blanks only
C26_BonusOfPlainQueries ==
    (SearchReturnedList
        /\ \A k \in 1..Len(call.arg.v) : call.arg.v[k] \notin {".", "+"}) =>
        \A i \in 1..Len(ret.v) :
            ret.v[i].score >= SumOfWeights(ret.v[i].matchedFields)

\* C27: searchComponents returns an empty sequence whenever the query is
\* empty after lower-casing and trimming, a query of blanks included.
C27_BlankQueryMatchesNothing ==
    (/\ Returned("searchComponents")
     /\ call.platform \in KnownPlatforms
     /\ call.arg.t = "string"
     /\ Normalized(call.arg.v) = <<>>) =>
        ret = Arr(<<>>)

-----------------------------------------------------------------------------
\* The response renders the notes of a component
NativeNotesRendered ==
    /\ ToolReturned({"get_component_native_notes"})
    /\ TextOf(ret).template = "# Native Developer Notes"

\* The component get_component_native_notes was asked for, resolved in the
\* native platform
NativeResolved == findComponent("native", CalledArguments.v.component)

\* C28: get_component_native_notes resolves the component in the native
\* platform, returns iOS notes only for the selector "ios" and Android
\* notes only for the selector "android"; a selector outside {ios, android}
\* never yields the notes of a component.
C28_NotesOnlyForTheirSelector ==
    NativeNotesRendered =>
       /\ NativeResolved.t = "object"
       /\ TextOf(ret).name = NativeResolved.v.name
       /\ PlatformKey(CalledArguments.v.platform) \in {"ios", "android"}
       /\ TextOf(ret).platformName = "iOS" =>
             /\ PlatformKey(CalledArguments.v.platform) = "ios"
             /\ TextOf(ret).body = NativeResolved.v.iosDeveloperNotes
       /\ TextOf(ret).platformName = "Android" =>
             /\ PlatformKey(CalledArguments.v.platform) = "android"
             /\ TextOf(ret).body = NativeResolved.v.androidDeveloperNotes

\* The part of C28 that does not depend on the selector being one of the
\* two: the native platform resolves, and iOS notes answer "ios" only
C28_NativeAndIosOnly ==
    NativeNotesRendered =>
       /\ NativeResolved.t = "object"
       /\ TextOf(ret).name = NativeResolved.v.name
       /\ TextOf(ret).platformName = "iOS" =>
             /\ PlatformKey(CalledArguments.v.platform) = "ios"
             /\ TextOf(ret).body = NativeResolved.v.iosDeveloperNotes
       /\ TextOf(ret).platformName = "Android" =>
             TextOf(ret).body = NativeResolved.v.androidDeveloperNotes

-----------------------------------------------------------------------------
\* The element is the notification 'notifications/initialized'
IsInitializedNotification(request) ==
    /\ request.t = "object"
    /\ request.v.method.t = "string"
    /\ request.v.method.v[1] = "notifications/initialized"

\* The elements of a batch that are not that notification, in their order
RECURSIVE ToAnswer(_)
ToAnswer(requests) ==
    IF Len(requests) = 0 THEN <<>>
    ELSE (IF IsInitializedNotification(requests[1]) THEN <<>>
          ELSE <<requests[1]>>) \o ToAnswer(Tail(requests))

\* The response carries the id of the request: the same id, or none where
\* the request has none
CarriesIdOf(response, request) ==
    IF Prop(request, "id").t = "undefined" THEN "id" \notin DOMAIN response.v
    ELSE "id" \in DOMAIN response.v /\ response.v.id = Prop(request, "id")

\* The reply answers the requests one for one and in order
AnswersInOrder(reply, requests) ==
    /\ Len(RepliedResponses(reply)) = Len(ToAnswer(requests))
    /\ \A k \in 1..Len(RepliedResponses(reply)) :
          LET response == RepliedResponses(reply)[k]
          IN  /\ k <= Len(ToAnswer(requests))
              /\ CarriesIdOf(response, ToAnswer(requests)[k])
              /\ ("result" \in DOMAIN response.v) # ("error" \in DOMAIN response.v)

\* C29: the reply to a batch POST holds exactly one response for each
\* element that is not a 'notifications/initialized' notification, in the
\* order of the requests, each with the id of its request and exactly one
\* of result and error; the notifications get no response.
C29_OneResponsePerRequest ==
    PostedBatch => AnswersInOrder(ret, call.event.body.v[1].v)

\* The same for the batches that hold no null element
C29_OneResponsePerNonNullRequest ==
    (PostedBatch
       /\ \A i \in 1..Len(call.event.body.v[1].v) :
              call.event.body.v[1].v[i].t # "null") =>
        AnswersInOrder(ret, call.event.body.v[1].v)

-----------------------------------------------------------------------------
\* The reply carries every CORS header
CarriesCors(reply) ==
    \A h \in DOMAIN corsHeaders :
        h \in DOMAIN reply.headers /\ reply.headers[h] = corsHeaders[h]

\* The body is JSON text
Parseable(body) == body.t = "json"

\* The body is one request, the notification 'notifications/initialized'
LoneNotification(body) ==
    Parseable(body) /\ IsInitializedNotification(body.v[1])

\* The body of the reply is a JSON-RPC response or a list of them
JsonRpcBody(body) ==
    /\ body.t = "json"
    /\ \/ body.v[1].t = "array"
       \/ body.v[1].t = "object" /\ "jsonrpc" \in DOMAIN body.v[1].v

\* The reply is the parse error: code -32700 and id null
IsParseError(reply) ==
    /\ reply.statusCode = 400
    /\ reply.body.t = "json"
    /\ reply.body.v[1].t = "object"
    /\ DOMAIN reply.body.v[1].v = {"jsonrpc", "id", "error"}
    /\ reply.body.v[1].v.id = Null
    /\ reply.body.v[1].v.error.code = -32700

\* The health document of GET
IsHealth(reply) ==
    /\ reply.statusCode = 200
    /\ reply.body.t = "json"
    /\ reply.body.v[1].t = "object"
    /\ "status" \in DOMAIN reply.body.v[1].v
    /\ reply.body.v[1].v.status = "healthy"
    /\ reply.body.v[1].v.tools = 11

\* The status and body of the reply to a POST, given what was posted; a
\* body that is parseable is never answered as a parse error
PostReplyFor(reply, body, parseErrorOnlyIfUnparseable) ==
    IF ~Parseable(body) THEN IsParseError(reply)
    ELSE IF LoneNotification(body)
    THEN reply.statusCode = 202 /\ reply.body = EmptyBody
    ELSE \/ reply.statusCode = 200 /\ JsonRpcBody(reply.body)
         \/ ~parseErrorOnlyIfUnparseable /\ IsParseError(reply)

ReplyFor(reply, event, parseErrorOnlyIfUnparseable) ==
    /\ CarriesCors(reply)
    /\ CASE event.httpMethod = "OPTIONS" ->
               reply.statusCode = 204 /\ reply.body = EmptyBody
         [] event.httpMethod = "GET" -> IsHealth(reply)
         [] event.httpMethod = "POST" ->
               PostReplyFor(reply, event.body, parseErrorOnlyIfUnparseable)
         [] OTHER -> reply.statusCode = 405

\* C30: every invocation of the HTTP handler returns one reply that carries
\* the CORS headers, with the status its method and body determine:
\* OPTIONS 204 with an empty body; GET 200 with the health document; POST
\* 200 with a JSON-RPC body, 202 with an empty body for a lone notification,
\* or 400 with error code -32700 and id null when the body is not
\* parseable; any other method 405.
C30_ReplyDeterminedByMethodAndBody ==
    Returned("handler") => ReplyFor(ret, call.event, TRUE)

\* The same, where a parseable body may also be answered by the parse error
C30_ReplyUpToParseErrors ==
    Returned("handler") => ReplyFor(ret, call.event, FALSE)

\* The parse error answers a parseable body only where a request is null
C30_ParseErrorOfParseableIsNull ==
    (/\ Returned("handler")
     /\ call.event.httpMethod = "POST"
     /\ Parseable(call.event.body)
     /\ ret.statusCode = 400) =>
        \/ call.event.body.v[1].t = "null"
        \/ /\ call.event.body.v[1].t = "array"
           /\ \E i \in 1..Len(call.event.body.v[1].v) :
                 call.event.body.v[1].v[i].t = "null"

-----------------------------------------------------------------------------
\* Two replies that are the same: status, headers and body
SameReply(a, b) ==
    /\ a.statusCode = b.statusCode
    /\ a.headers = b.headers
    /\ a.body.t = b.body.t
    /\ a.body.t = "json" =>
          /\ a.body.v[1].t = b.body.v[1].t
          /\ IF a.body.v[1].t = "array"
             THEN /\ Len(a.body.v[1].v) = Len(b.body.v[1].v)
                  /\ \A k \in 1..Len(a.body.v[1].v) :
                        SameResponse(a.body.v[1].v[k], b.body.v[1].v[k])
             ELSE /\ SameResponse(a.body.v[1], b.body.v[1])
                  /\ a.body = b.body

\* C23: for any interleaving of overlapping invocations of handler at their
\* await points, each invocation returns the reply it returns when it runs
\* alone.
C23_RepliesAsIfAlone ==
    Returned("handler") => SameReply(ret, handler(call.event))

\* An invocation that started while another was suspended at an await has
\* replied to a batch with two responses or more
C23_Witness ==
    /\ Returned("handler")
    /\ call.slot > 1
    /\ ret.statusCode = 200
    /\ ret.body.v[1].t = "array"
    /\ Len(ret.body.v[1].v) >= 2

====
